---- MODULE Spec2Model ----
(***************************************************************************)
(* Model of the website-cloner pipeline orchestrator: the submission      *)
(* route (app/api/clone/route.ts), runAgent and updateRedisState          *)
(* (lib/agent/graph.ts, src/unnamed/part_000) and the four stage          *)
(* functions scoutNode, architectNode, coderNode and qaNode.              *)
(*                                                                         *)
(* A JobState (AgentState) is a record; a field that is `undefined` in    *)
(* the JavaScript object is absent from the record's DOMAIN, so the       *)
(* object spread {...a, ...b} is the operator Merge.  JavaScript strings  *)
(* whose characters the code inspects (file names, file contents) are     *)
(* tuples of one-character strings.  Timestamps of log entries are left   *)
(* out of the entries; completedAt keeps its timestamp (the clock `now`). *)
(***************************************************************************)
EXTENDS Integers, Sequences, FiniteSets, TLC

(***************************************************************************)
(* Bounds of the model (not program constants).                            *)
(***************************************************************************)
MaxTime == 1

(***************************************************************************)
(* Program constants.                                                      *)
(***************************************************************************)
MaxRetries == 3
PassThreshold == 90

(***************************************************************************)
(* JavaScript strings as character tuples.                                 *)
(***************************************************************************)
K_App == <<"A", "p", "p", ".", "t", "s", "x">>
K_SlashApp == <<"/", "A", "p", "p", ".", "t", "s", "x">>
K_app == <<"a", "p", "p", ".", "t", "s", "x">>
K_Slashapp == <<"/", "a", "p", "p", ".", "t", "s", "x">>
K_SrcApp == <<"s", "r", "c", "/", "A", "p", "p", ".", "t", "s", "x">>
K_Main == <<"M", "a", "i", "n", ".", "j", "s">>
K_Nav == <<"N", "a", "v", ".", "t", "s", "x">>
K_Index == <<"i", "n", "d", "e", "x", ".", "j", "s">>

S_app == <<"a", "p", "p">>
S_main == <<"m", "a", "i", "n">>
S_tsx == <<".", "t", "s", "x">>
S_exportDefault == <<"e", "x", "p", "o", "r", "t", " ", "d", "e", "f", "a", "u", "l", "t">>
S_functionApp == <<"f", "u", "n", "c", "t", "i", "o", "n", " ", "A", "p", "p">>

T_Empty == <<>>
T_AppSource == <<"e", "x", "p", "o", "r", "t", " ", "d", "e", "f", "a", "u", "l", "t", " ", "A">>
T_NavSource == <<"c", "o", "n", "s", "t", " ", "N">>
U_Logo ==
  <<"h", "t", "t", "p", ":", "/", "/", "o", "/", "a", ".", "p", "n", "g">>
L_Logo ==
  <<"/", "t", "e", "m", "p", "/", "a", "s", "s", "e", "t", "s", "/", "j",
    "/", "a", ".", "p", "n", "g">>
T_RemoteImg ==
  <<"e", "x", "p", "o", "r", "t", " ", "d", "e", "f", "a", "u", "l", "t",
    " ", "<", "i", "m", "g", " ", "s", "r", "c", "=", "h", "t", "t", "p",
    ":", "/", "/", "o", "/", "a", ".", "p", "n", "g", ">">>
T_LocalImg ==
  <<"e", "x", "p", "o", "r", "t", " ", "d", "e", "f", "a", "u", "l", "t",
    " ", "<", "i", "m", "g", " ", "s", "r", "c", "=", "/", "t", "e", "m",
    "p", "/", "a", "s", "s", "e", "t", "s", "/", "j", "/", "a", ".", "p",
    "n", "g", ">">>

(***************************************************************************)
(* The extraction snapshot as far as the later stages read it: the list of *)
(* downloaded assets.                                                      *)
(***************************************************************************)
Snapshot == [assets |-> << [originalUrl |-> U_Logo, localPath |-> L_Logo] >>]

ToLowerChar(c) ==
  CASE c = "A" -> "a"
    [] c = "M" -> "m"
    [] c = "N" -> "n"
    [] OTHER -> c

ToLowerCase(s) == [i \in 1..Len(s) |-> ToLowerChar(s[i])]

Includes(s, t) ==
  \E i \in 0..(Len(s) - Len(t)) : SubSeq(s, i + 1, i + Len(t)) = t

EndsWith(s, t) ==
  /\ Len(s) >= Len(t)
  /\ SubSeq(s, Len(s) - Len(t) + 1, Len(s)) = t

Truthy(v) == v # <<>>

(***************************************************************************)
(* The files object of a GeneratedCode: entries in insertion order.        *)
(* Lookup gives <<>> for a missing key: every use in the code only tests   *)
(* the value for truthiness, and undefined and "" are both falsy.          *)
(***************************************************************************)
HasKey(files, k) == \E i \in 1..Len(files) : files[i].key = k

Lookup(files, k) ==
  IF HasKey(files, k)
    THEN files[CHOOSE i \in 1..Len(files) : files[i].key = k].value
    ELSE <<>>

SetFile(files, k, v) ==
  IF HasKey(files, k)
    THEN [i \in 1..Len(files) |->
            IF files[i].key = k THEN [key |-> k, value |-> v] ELSE files[i]]
    ELSE Append(files, [key |-> k, value |-> v])

FirstIndex(flags) ==
  IF \E i \in 1..Len(flags) : flags[i]
    THEN CHOOSE i \in 1..Len(flags) :
           /\ flags[i]
           /\ \A j \in 1..(i - 1) : ~flags[j]
    ELSE 0

FirstTruthy(cands) ==
  IF \E i \in 1..Len(cands) : Truthy(cands[i])
    THEN cands[CHOOSE i \in 1..Len(cands) :
                 /\ Truthy(cands[i])
                 /\ \A j \in 1..(i - 1) : ~Truthy(cands[j])]
    ELSE <<>>

(***************************************************************************)
(* The object spread {...s, ...u}.                                         *)
(***************************************************************************)
Merge(s, u) ==
  [f \in (DOMAIN s) \cup (DOMAIN u) |-> IF f \in DOMAIN u THEN u[f] ELSE s[f]]

Has(s, f) == f \in DOMAIN s

IsPrefix(a, b) ==
  /\ Len(a) <= Len(b)
  /\ SubSeq(b, 1, Len(a)) = a

Terminal == {"complete", "failed"}

(***************************************************************************)
(* Inputs of the stage functions: what the external calls of a stage do.   *)
(* kind "error": an external call (browser, provider, parser) raises and   *)
(* the stage's own handler turns it into a `failed` update.  kind "throw": *)
(* the raised value is null/undefined, so `error.message` in the stage's   *)
(* handler raises in turn and the exception leaves the stage function.     *)
(* kind "text": the coder's model answers with text that holds no JSON     *)
(* object.                                                                 *)
(***************************************************************************)
R_ok == [kind |-> "ok"]
R_error == [kind |-> "error"]
R_throw == [kind |-> "throw"]
R_text == [kind |-> "text"]

ScoutResponses == {R_ok, R_error, R_throw}

ArchitectResponses == {R_ok, R_error, R_throw}

F_Normal == << [key |-> K_App, value |-> T_AppSource],
               [key |-> K_Nav, value |-> T_NavSource] >>
F_Nested == << [key |-> K_SrcApp, value |-> T_AppSource] >>
F_MainEmpty == << [key |-> K_Main, value |-> T_Empty] >>
F_NoEntry == << [key |-> K_Index, value |-> T_AppSource] >>

ModelFiles == {F_Normal, F_Nested, F_MainEmpty, F_NoEntry}

CoderResponses ==
  {R_error, R_throw, R_text} \cup {[kind |-> "files", files |-> f] : f \in ModelFiles}

I_Footer == [description |-> "footer", suggestion |-> "sticky"]
I_Color == [description |-> "color", suggestion |-> "palette"]

V_Pass == [kind |-> "vision", metrics |-> <<95, 95, 95, 95>>, issues |-> <<>>]
V_Low == [kind |-> "vision", metrics |-> <<70, 75, 70, 80>>, issues |-> <<I_Footer>>]
V_Edge == [kind |-> "vision", metrics |-> <<90, 90, 90, 85>>,
           issues |-> <<I_Footer, I_Color>>]

VisionResponses == {V_Pass, V_Low, V_Edge}

QaResponses == {R_error, R_throw} \cup VisionResponses

(***************************************************************************)
(* scoutNode: the extraction either yields a snapshot or fails.            *)
(***************************************************************************)
scoutNode(state, resp) ==
  IF resp.kind = "ok"
    THEN [scoutData |-> Snapshot,
          status |-> "planning",
          currentNode |-> "architect",
          decisionLog |-> Append(state.decisionLog,
             [node |-> "scout", decision |-> "Completed website analysis"])]
    ELSE [status |-> "failed",
          errors |-> Append(state.errors, [node |-> "scout", error |-> "extraction"])]

scoutThrows(state, resp) == resp.kind = "throw"

(***************************************************************************)
(* architectNode: getScoutOverview(scoutData) raises a TypeError inside    *)
(* the try block when scoutData is undefined.                              *)
(***************************************************************************)
architectNode(state, resp) ==
  IF ~Has(state, "scoutData")
    THEN [status |-> "failed",
          errors |-> Append(state.errors, [node |-> "architect", error |-> "TypeError"])]
    ELSE IF resp.kind = "ok"
      THEN [architectPlan |-> "plan",
            status |-> "coding",
            currentNode |-> "coder",
            decisionLog |-> Append(state.decisionLog,
               [node |-> "architect", decision |-> "Created component plan"])]
      ELSE [status |-> "failed",
            errors |-> Append(state.errors, [node |-> "architect", error |-> "planning"])]

architectThrows(state, resp) == Has(state, "scoutData") /\ resp.kind = "throw"

(***************************************************************************)
(* coderNode, lines 143-170: the entry file.                               *)
(***************************************************************************)
IsAppTsxKey(e) == Includes(ToLowerCase(e.key), K_app)

IsMainKey(e) ==
  \/ Includes(ToLowerCase(e.key), S_app)
  \/ Includes(ToLowerCase(e.key), S_main)
  \/ EndsWith(ToLowerCase(e.key), S_tsx)

AppTsxKeyIndex(files) == FirstIndex([i \in 1..Len(files) |-> IsAppTsxKey(files[i])])

MainKeyIndex(files) == FirstIndex([i \in 1..Len(files) |-> IsMainKey(files[i])])

AppFile(files) ==
  FirstTruthy(<< Lookup(files, K_App),
                 Lookup(files, K_SlashApp),
                 Lookup(files, K_app),
                 Lookup(files, K_Slashapp),
                 IF AppTsxKeyIndex(files) = 0
                   THEN <<>>
                   ELSE files[AppTsxKeyIndex(files)].key >>)

MissingEntry(files) ==
  /\ ~Truthy(AppFile(files))
  /\ MainKeyIndex(files) = 0

NormalizeFiles(files) ==
  IF ~Truthy(AppFile(files))
    THEN SetFile(files, K_App, files[MainKeyIndex(files)].value)
    ELSE IF AppFile(files) # Lookup(files, K_App)
      THEN SetFile(files, K_App, AppFile(files))
      ELSE files

QaFeedbackFirstIssue(state) ==
  IF Has(state, "qaResult") /\ Len(state.qaResult.issues) > 0
    THEN << <<state.qaResult.issues[1].description, state.qaResult.issues[1].suggestion>> >>
    ELSE <<>>

QaFeedback(state) ==
  IF Has(state, "qaResult")
    THEN [i \in 1..Len(state.qaResult.issues) |->
            <<state.qaResult.issues[i].description, state.qaResult.issues[i].suggestion>>]
    ELSE <<>>

coderNodeFreshLog(state, resp) ==
  IF ~Has(state, "scoutData") \/ resp.kind # "files" \/ MissingEntry(resp.files)
    THEN [status |-> "failed",
          errors |-> Append(state.errors, [node |-> "coder", error |-> "generation"])]
    ELSE [generatedCode |-> [files |-> NormalizeFiles(resp.files)],
          status |-> "qa",
          currentNode |-> "qa",
          decisionLog |-> << [node |-> "coder", decision |-> "Generated initial code"] >>]

coderNode(state, resp) ==
  IF ~Has(state, "scoutData")
    THEN [status |-> "failed",
          errors |-> Append(state.errors, [node |-> "coder", error |-> "TypeError"])]
    ELSE IF resp.kind # "files"
      THEN [status |-> "failed",
            errors |-> Append(state.errors,
               [node |-> "coder",
                error |-> IF resp.kind = "text" THEN "invalid JSON" ELSE "generation"])]
      ELSE IF MissingEntry(resp.files)
        THEN [status |-> "failed",
              errors |-> Append(state.errors,
                 [node |-> "coder", error |-> "missing App.tsx"])]
        ELSE [generatedCode |-> [files |-> NormalizeFiles(resp.files)],
              status |-> "qa",
              currentNode |-> "qa",
              decisionLog |-> Append(state.decisionLog,
                 [node |-> "coder",
                  decision |-> IF state.retryCount > 0
                                 THEN "Regenerated code with fixes"
                                 ELSE "Generated initial code"])]

coderThrows(state, resp) == Has(state, "scoutData") /\ resp.kind = "throw"

(***************************************************************************)
(* qaNode.                                                                 *)
(***************************************************************************)
IsAppContent(e) ==
  \/ Includes(e.value, S_exportDefault)
  \/ Includes(e.value, S_functionApp)

AppContentIndex(files) == FirstIndex([i \in 1..Len(files) |-> IsAppContent(files[i])])

AppContent(files) ==
  FirstTruthy(<< Lookup(files, K_App),
                 Lookup(files, K_SlashApp),
                 Lookup(files, K_app),
                 IF AppContentIndex(files) = 0
                   THEN <<>>
                   ELSE files[AppContentIndex(files)].value >>)

Renders(state) ==
  /\ Has(state, "generatedCode")
  /\ Truthy(AppContent(state.generatedCode.files))

(***************************************************************************)
(* JavaScript numbers.  Every value of the score computation is a number   *)
(* of tenths plus a rounding error far below a tenth: [t |-> T, e |-> E]   *)
(* stands for the double T/10 + E * 2^-56 / 10 (2^-56 is the spacing of    *)
(* the doubles around 0.1, the smallest nonzero value that occurs).        *)
(* Fl rounds an exact value to the nearest double, ties to even.           *)
(***************************************************************************)
FinestUlp == 56

MaxBinade == 12

RECURSIVE Pow2(_)
Pow2(n) == IF n = 0 THEN 1 ELSE 2 * Pow2(n - 1)

RECURSIVE Pow2Mod(_, _)
Pow2Mod(n, d) ==
  IF n = 0 THEN 1 % d
  ELSE IF n % 2 = 0
    THEN LET h == Pow2Mod(n \div 2, d) IN (h * h) % d
    ELSE (2 * Pow2Mod(n - 1, d)) % d

Exact(t) == [t |-> t, e |-> 0]

\* x >= 2^(j-4)
AtLeastPow2(x, j) ==
  \/ 16 * x.t > 10 * Pow2(j)
  \/ 16 * x.t = 10 * Pow2(j) /\ x.e >= 0

\* the j with 2^(j-4) <= x < 2^(j-3): doubles there are 2^(j-56) apart
Binade(x) ==
  CHOOSE j \in 0..MaxBinade :
    AtLeastPow2(x, j) /\ (j = MaxBinade \/ ~AtLeastPow2(x, j + 1))

\* the spacing of the doubles in binade j, in units of 2^-56 / 10
Ulp(j) == 10 * Pow2(j)

\* the distance of x above the nearest even multiple of Ulp(j) below it
AboveEven(x, j) ==
  (Pow2(j) * (((x.t % 20) * Pow2Mod(FinestUlp - j, 20)) % 20) + x.e) % (2 * Ulp(j))

FlMagnitude(x) ==
  IF x.t = 0 /\ x.e = 0
    THEN x
    ELSE LET j == Binade(x)
             r2 == AboveEven(x, j)
             r == r2 % Ulp(j)
         IN  IF 2 * r < Ulp(j) \/ (2 * r = Ulp(j) /\ r2 < Ulp(j))
               THEN [t |-> x.t, e |-> x.e - r]
               ELSE [t |-> x.t, e |-> x.e + Ulp(j) - r]

Neg(x) == [t |-> 0 - x.t, e |-> 0 - x.e]

IsNeg(x) == x.t < 0 \/ (x.t = 0 /\ x.e < 0)

\* rounding is symmetric about 0
Fl(x) == IF IsNeg(x) THEN Neg(FlMagnitude(Neg(x))) ELSE FlMagnitude(x)

\* the literal 0.w
Literal(w) == Fl(Exact(w))

Times(n, w) == Fl([t |-> n * Literal(w).t, e |-> n * Literal(w).e])

Plus(a, b) == Fl([t |-> a.t + b.t, e |-> a.e + b.e])

MathRound(x) ==
  (x.t \div 10) + (IF x.t % 10 > 5 \/ (x.t % 10 = 5 /\ x.e >= 0) THEN 1 ELSE 0)

GreaterEq(x, n) == x.t > 10 * n \/ (x.t = 10 * n /\ x.e >= 0)

compositeScore(m) ==
  Plus(Plus(Plus(Times(m[1], 4), Times(m[2], 3)), Times(m[3], 2)), Times(m[4], 1))

MakeQaResult(resp) ==
  LET sum == compositeScore(resp.metrics)
  IN
  [score |-> MathRound(sum),
   passed |-> GreaterEq(sum, PassThreshold),
   metrics |-> resp.metrics,
   issues |-> resp.issues]

shouldRetry(qaResult, retryCount, maxRetries) ==
  ~qaResult.passed /\ retryCount < maxRetries

IssueDescriptions(issues) == [i \in 1..Len(issues) |-> issues[i].description]

qaNode(state, resp, t) ==
  IF ~Renders(state)
    THEN [status |-> "failed",
          errors |-> Append(state.errors, [node |-> "qa", error |-> "No App.tsx content"])]
    ELSE IF resp.kind # "vision"
      THEN [status |-> "failed",
            errors |-> Append(state.errors, [node |-> "qa", error |-> "validation"])]
      ELSE IF MakeQaResult(resp).passed
        THEN [qaResult |-> MakeQaResult(resp),
              status |-> "complete",
              currentNode |-> "null",
              completedAt |-> t,
              decisionLog |-> Append(state.decisionLog,
                 [node |-> "qa", decision |-> "Validation passed"])]
        ELSE IF shouldRetry(MakeQaResult(resp), state.retryCount, state.maxRetries)
          THEN [qaResult |-> MakeQaResult(resp),
                status |-> "coding",
                currentNode |-> "coder",
                retryCount |-> state.retryCount + 1,
                attemptHistory |-> Append(state.attemptHistory,
                   [attempt |-> state.retryCount + 1,
                    qaScore |-> MakeQaResult(resp).score,
                    issues |-> IssueDescriptions(resp.issues)]),
                decisionLog |-> Append(state.decisionLog,
                   [node |-> "qa", decision |-> "Retrying with fixes"])]
          ELSE [qaResult |-> MakeQaResult(resp),
                status |-> "complete",
                currentNode |-> "null",
                completedAt |-> t,
                decisionLog |-> Append(state.decisionLog,
                   [node |-> "qa", decision |-> "Max retries exhausted"])]

qaThrows(state, resp) == Renders(state) /\ resp.kind = "throw"

(***************************************************************************)
(* State.                                                                  *)
(*   pc            position of the job: the submission route, then the     *)
(*                 awaits of runAgent                                      *)
(*   currentState  runAgent's local JobState                               *)
(*   local         the retry loop's local counter `retryCount` (line 127)  *)
(*   redis         the value stored under clone:<jobId>                    *)
(*   redisUp       whether redis.setex succeeds (the store is reachable)   *)
(*   wrote         history: whether the latest setex succeeded             *)
(*   now           the clock read by new Date()                            *)
(*   calls         history: the stage invocations made so far              *)
(*   unit          a function or gateway call exercised on its own: its    *)
(*                 inputs, its position and its result (idle in a job)     *)
(***************************************************************************)
VARIABLES pc, currentState, local, redis, redisUp, wrote, now, calls, unit

vars == <<pc, currentState, local, redis, redisUp, wrote, now, calls, unit>>

NoKey == [missing |-> TRUE]

Idle == [kind |-> "idle"]

initialState ==
  [status |-> "pending",
   currentNode |-> "null",
   retryCount |-> 0,
   maxRetries |-> MaxRetries,
   attemptHistory |-> <<>>,
   decisionLog |-> <<>>,
   errors |-> <<>>]

postState ==
  [status |-> "pending",
   currentNode |-> "null",
   decisionLog |-> <<>>,
   errors |-> <<>>]

(***************************************************************************)
(* updateRedisState: a failing setex is logged and swallowed.              *)
(* updateRedisStateSkipped is the variant that never reaches the store.    *)
(***************************************************************************)
updateRedisStateSkipped(store, state, up) == store

updateRedisState(store, state, up) == IF up THEN state ELSE store

\* where runAgent goes on after `await updateRedisState(...)`: the catch in
\* updateRedisState ends the failure there.  AfterWriteRethrown is the
\* variant whose failure reaches runAgent's catch.
AfterWriteRethrown(to, up) == IF up THEN to ELSE "catch"

AfterWrite(to, up) == to

CallRecord(node, state, update) ==
  [node |-> node,
   ret |-> update.status,
   retryCount |-> state.retryCount,
   seen |-> IF Has(state, "qaResult") THEN <<state.qaResult>> ELSE <<>>,
   feedback |-> IF node = "coder" /\ state.retryCount > 0 THEN QaFeedback(state) ELSE <<>>,
   qa |-> IF Has(update, "qaResult") THEN <<update.qaResult>> ELSE <<>>]

ThrowRecord(node, state) ==
  [node |-> node,
   ret |-> "throw",
   retryCount |-> state.retryCount,
   seen |-> IF Has(state, "qaResult") THEN <<state.qaResult>> ELSE <<>>,
   feedback |-> IF node = "coder" /\ state.retryCount > 0 THEN QaFeedback(state) ELSE <<>>,
   qa |-> <<>>]

JobInit ==
  /\ pc = "post"
  /\ currentState = initialState
  /\ local = 0
  /\ redis = NoKey
  /\ redisUp = TRUE
  /\ wrote = FALSE
  /\ now = 0
  /\ calls = <<>>

Init ==
  /\ JobInit
  /\ unit = Idle

(***************************************************************************)
(* POST /api/clone: store the pending record, then start runAgent; a      *)
(* failing setex is answered with status 500 and no job is started.        *)
(***************************************************************************)
POST ==
  /\ pc = "post"
  /\ redis' = IF redisUp THEN postState ELSE redis
  /\ wrote' = redisUp
  /\ pc' = IF redisUp THEN "start" ELSE "rejected"
  /\ UNCHANGED <<currentState, local, redisUp, now, calls, unit>>

(***************************************************************************)
(* runAgent, one action per await.                                         *)
(***************************************************************************)
Enter(from, status, node, to) ==
  /\ pc = from
  /\ currentState' = Merge(currentState, [status |-> status, currentNode |-> node])
  /\ redis' = updateRedisState(redis, currentState', redisUp)
  /\ wrote' = redisUp
  /\ pc' = AfterWrite(to, redisUp)
  /\ UNCHANGED <<local, redisUp, now, calls, unit>>

Returned(node, update, to) ==
  /\ currentState' = Merge(currentState, update)
  /\ redis' = updateRedisState(redis, currentState', redisUp)
  /\ wrote' = redisUp
  /\ calls' = Append(calls, CallRecord(node, currentState, update))
  /\ pc' = AfterWrite(to, redisUp)
  /\ UNCHANGED <<redisUp, now, unit>>

Raised(node) ==
  /\ calls' = Append(calls, ThrowRecord(node, currentState))
  /\ pc' = "catch"
  /\ UNCHANGED <<currentState, local, redis, redisUp, wrote, now, unit>>

Start ==
  /\ pc = "start"
  /\ currentState' = initialState
  /\ redis' = updateRedisState(redis, currentState', redisUp)
  /\ wrote' = redisUp
  /\ pc' = AfterWrite("scout_enter", redisUp)
  /\ UNCHANGED <<local, redisUp, now, calls, unit>>

EnterScout == Enter("scout_enter", "scouting", "scout", "scout_call")

CallScout ==
  /\ pc = "scout_call"
  /\ \E resp \in ScoutResponses :
       IF scoutThrows(currentState, resp)
         THEN Raised("scout")
         ELSE /\ Returned("scout", scoutNode(currentState, resp), "architect_enter")
              /\ UNCHANGED local

EnterArchitect == Enter("architect_enter", "planning", "architect", "architect_call")

CallArchitect ==
  /\ pc = "architect_call"
  /\ \E resp \in ArchitectResponses :
       IF architectThrows(currentState, resp)
         THEN Raised("architect")
         ELSE /\ Returned("architect", architectNode(currentState, resp), "coder_enter")
              /\ UNCHANGED local

EnterCoder == Enter("coder_enter", "coding", "coder", "coder_call")

CallCoder ==
  /\ pc = "coder_call"
  /\ \E resp \in CoderResponses :
       IF coderThrows(currentState, resp)
         THEN Raised("coder")
         ELSE /\ Returned("coder", coderNode(currentState, resp), "qa_enter")
              /\ UNCHANGED local

EnterQa == Enter("qa_enter", "qa", "qa", "qa_call")

CallQa ==
  /\ pc = "qa_call"
  /\ \E resp \in QaResponses :
       IF qaThrows(currentState, resp)
         THEN Raised("qa")
         ELSE /\ Returned("qa", qaNode(currentState, resp, now), "loop")
              /\ local' = 0

LoopGuardAnyStatus(state, n) ==
  /\ state.retryCount < state.maxRetries
  /\ n < state.maxRetries

LoopGuard(state, n) ==
  /\ state.status = "coding"
  /\ state.retryCount < state.maxRetries
  /\ n < state.maxRetries

RetryEnterNoIncrement(state, n) ==
  [local |-> n,
   state |-> Merge(state, [retryCount |-> n, status |-> "coding", currentNode |-> "coder"])]

RetryEnterCountsTwice(state, n) ==
  [local |-> n + 1,
   state |-> Merge(state, [retryCount |-> state.retryCount + 1, status |-> "coding",
                           currentNode |-> "coder"])]

RetryEnterPostIncrement(state, n) ==
  [local |-> n + 1,
   state |-> Merge(state, [retryCount |-> n, status |-> "coding", currentNode |-> "coder"])]

RetryEnter(state, n) ==
  [local |-> n + 1,
   state |-> Merge(state, [retryCount |-> n + 1, status |-> "coding", currentNode |-> "coder"])]

Retry ==
  /\ pc = "loop"
  /\ LoopGuard(currentState, local)
  /\ local' = RetryEnter(currentState, local).local
  /\ currentState' = RetryEnter(currentState, local).state
  /\ redis' = updateRedisState(redis, currentState', redisUp)
  /\ wrote' = redisUp
  /\ pc' = "retry_coder_call"
  /\ UNCHANGED <<redisUp, now, calls, unit>>

RetryCallCoder ==
  /\ pc = "retry_coder_call"
  /\ \E resp \in CoderResponses :
       IF coderThrows(currentState, resp)
         THEN Raised("coder")
         ELSE /\ Returned("coder", coderNode(currentState, resp),
                          IF coderNode(currentState, resp).status = "qa"
                            THEN "retry_qa_enter" ELSE "loop")
              /\ UNCHANGED local

RetryEnterQa == Enter("retry_qa_enter", "qa", "qa", "retry_qa_call")

RetryCallQa ==
  /\ pc = "retry_qa_call"
  /\ \E resp \in QaResponses :
       IF qaThrows(currentState, resp)
         THEN Raised("qa")
         ELSE /\ Returned("qa", qaNode(currentState, resp, now), "loop")
              /\ UNCHANGED local

MarkCompleteSkipped(state, t) == state

MarkCompleteAlways(state, t) == Merge(state, [status |-> "complete", completedAt |-> t])

MarkComplete(state, t) ==
  IF state.status # "failed"
    THEN Merge(state, [status |-> "complete", completedAt |-> t])
    ELSE state

Finish ==
  /\ pc = "loop"
  /\ ~LoopGuard(currentState, local)
  /\ currentState' = MarkComplete(currentState, now)
  /\ redis' = updateRedisState(redis, currentState', redisUp)
  /\ wrote' = redisUp
  /\ pc' = "done"
  /\ UNCHANGED <<local, redisUp, now, calls, unit>>

CatchStateUnknown(state, t) ==
  Merge(state,
    [status |-> "failed",
     errors |-> Append(state.errors, [node |-> "unknown", error |-> "exception"]),
     completedAt |-> t])

CatchState(state, t) ==
  Merge(state,
    [status |-> "failed",
     errors |-> Append(state.errors,
        [node |-> IF state.currentNode = "null" THEN "unknown" ELSE state.currentNode,
         error |-> "exception"]),
     completedAt |-> t])

Catch ==
  /\ pc = "catch"
  /\ currentState' = CatchState(currentState, now)
  /\ redis' = updateRedisState(redis, currentState', redisUp)
  /\ wrote' = redisUp
  /\ pc' = "final"
  /\ UNCHANGED <<local, redisUp, now, calls, unit>>

Final ==
  /\ pc = "final"
  /\ redis' = updateRedisState(redis, currentState, redisUp)
  /\ wrote' = redisUp
  /\ pc' = "done"
  /\ UNCHANGED <<currentState, local, redisUp, now, calls, unit>>

(***************************************************************************)
(* Time passes.                                                            *)
(***************************************************************************)
Tick ==
  /\ now < MaxTime
  /\ now' = now + 1
  /\ UNCHANGED <<pc, currentState, local, redis, redisUp, wrote, calls, unit>>

Next ==
  \/ POST
  \/ Start
  \/ EnterScout
  \/ CallScout
  \/ EnterArchitect
  \/ CallArchitect
  \/ EnterCoder
  \/ CallCoder
  \/ EnterQa
  \/ CallQa
  \/ Retry
  \/ RetryCallCoder
  \/ RetryEnterQa
  \/ RetryCallQa
  \/ Finish
  \/ Catch
  \/ Final
  \/ Tick

Spec == Init /\ [][Next]_vars

(***************************************************************************)
(* The same job with a store that may become unreachable and come back.    *)
(***************************************************************************)
RedisFails ==
  /\ redisUp
  /\ redisUp' = FALSE
  /\ UNCHANGED <<pc, currentState, local, redis, wrote, now, calls, unit>>

RedisRecovers ==
  /\ ~redisUp
  /\ redisUp' = TRUE
  /\ UNCHANGED <<pc, currentState, local, redis, wrote, now, calls, unit>>

NextOutage ==
  \/ Next
  \/ RedisFails
  \/ RedisRecovers

SpecOutage == Init /\ [][NextOutage]_vars

(***************************************************************************)
(* Properties.                                                             *)
(***************************************************************************)
CallPcs ==
  {"scout_call", "architect_call", "coder_call", "qa_call",
   "retry_coder_call", "retry_qa_call"}

CountCalls(node) == Cardinality({i \in 1..Len(calls) : calls[i].node = node})

NoStageFailed == \A i \in 1..Len(calls) : calls[i].ret \notin {"failed", "throw"}

QaCallIndexes == {i \in 1..Len(calls) : calls[i].node = "qa"}

LastQaIndex == CHOOSE i \in QaCallIndexes : \A j \in QaCallIndexes : j <= i

(* C1: once a stage function has returned status `failed`, no further      *)
(* stage function is invoked for the job: a `failed` return can only be    *)
(* the last invocation.                                                    *)
C1StopsOnFailed ==
  \A i \in 1..Len(calls) : calls[i].ret = "failed" => i = Len(calls)

(* C2: when runAgent has returned, a job one of whose stage invocations    *)
(* failed or threw has status `failed` in the returned and in the stored   *)
(* JobState, and a job with a non-empty errors list is not `complete`.     *)
C2FailureIsFinal ==
  pc = "done" =>
    /\ (~NoStageFailed =>
          /\ currentState.status = "failed"
          /\ redis.status = "failed")
    /\ (currentState.errors # <<>> => currentState.status # "complete")

(* C3: every JobState held or stored by runAgent has                       *)
(* 0 <= retryCount <= maxRetries, and coderNode and qaNode are each        *)
(* invoked at most maxRetries + 1 times.                                   *)
C3RetryBound ==
  /\ \A s \in {currentState, redis} :
       Has(s, "retryCount") => (0 <= s.retryCount /\ s.retryCount <= s.maxRetries)
  /\ CountCalls("coder") <= MaxRetries + 1
  /\ CountCalls("qa") <= MaxRetries + 1

C3Witness ==
  /\ pc = "done"
  /\ Has(redis, "retryCount")
  /\ redis.retryCount = MaxRetries
  /\ CountCalls("coder") = MaxRetries
  /\ CountCalls("qa") = MaxRetries

(* C4: every QA attempt that returns the retry update (passed = false      *)
(* with retryCount < maxRetries, status `coding`) is followed, before the  *)
(* job ends, by a coderNode invocation that sees that QA result and, when  *)
(* that coder invocation succeeds, by another QA attempt.                  *)
C4RetryReentersCoding ==
  pc = "done" =>
    \A i \in 1..Len(calls) :
      (calls[i].node = "qa" /\ calls[i].ret = "coding") =>
        /\ i + 1 <= Len(calls)
        /\ calls[i + 1].node = "coder"
        /\ calls[i + 1].seen = calls[i].qa
        /\ (calls[i + 1].ret = "qa" =>
              /\ i + 2 <= Len(calls)
              /\ calls[i + 2].node = "qa")

(* C5: a job in which no stage fails ends `complete`, and it ends after a  *)
(* QA attempt that passed or that failed with retryCount equal to          *)
(* maxRetries; the final qaResult is the one of the last qaNode            *)
(* invocation, and nothing is invoked after a passing QA.                  *)
C5BestEffortCompletion ==
  (pc = "done" /\ NoStageFailed) =>
    /\ currentState.status = "complete"
    /\ QaCallIndexes # {}
    /\ LastQaIndex = Len(calls)
    /\ \/ calls[LastQaIndex].qa[1].passed
       \/ calls[LastQaIndex].retryCount = MaxRetries
    /\ <<currentState.qaResult>> = calls[LastQaIndex].qa
    /\ \A i \in QaCallIndexes : calls[i].qa[1].passed => i = Len(calls)

(* C6: once a JobState with a terminal status is stored, every later       *)
(* stored JobState is identical to it.                                     *)
C6TerminalImmutable ==
  [][(Has(redis, "status") /\ redis.status \in Terminal) => redis' = redis]_vars

(* C7: decisionLog and errors are append-only: for two JobStates stored    *)
(* one after the other, the earlier decisionLog and errors are prefixes of *)
(* the later ones.                                                         *)
C7AppendOnly ==
  [][Has(redis, "decisionLog") =>
       /\ IsPrefix(redis.decisionLog, redis'.decisionLog)
       /\ IsPrefix(redis.errors, redis'.errors)]_vars

C7Witness ==
  /\ Has(redis, "decisionLog")
  /\ Len(redis.decisionLog) >= 3
  /\ Len(redis.errors) >= 1

(* C8: a stored JobState with status `qa` carries a generatedCode whose    *)
(* files map is non-empty and has the entry file App.tsx.                  *)
C8QaHasEntryFile ==
  (Has(redis, "status") /\ redis.status = "qa") =>
    /\ Has(redis, "generatedCode")
    /\ Len(redis.generatedCode.files) > 0
    /\ HasKey(redis.generatedCode.files, K_App)

(* C9: the stored status only takes steps of the graph                     *)
(* pending -> scouting -> planning -> coding -> qa -> {complete, failed},  *)
(* plus qa -> coding and non-terminal -> failed.                           *)
StatusGraph ==
  { <<"pending", "scouting">>, <<"scouting", "planning">>, <<"planning", "coding">>,
    <<"coding", "qa">>, <<"qa", "complete">>, <<"qa", "failed">>, <<"qa", "coding">> }

AllowedStep(a, b) ==
  \/ a = b
  \/ <<a, b>> \in StatusGraph
  \/ (a \notin Terminal /\ b = "failed")

C9StatusGraph ==
  [][Has(redis, "status") => AllowedStep(redis.status, redis'.status)]_vars

HoldsUpdates(store, state) ==
  \A f \in (DOMAIN state) \ {"status", "currentNode"} :
    Has(store, f) /\ store[f] = state[f]

Settles == Next /\ pc' # pc

(***************************************************************************)
(* The job and the store without the clock: the time stamps the clock      *)
(* gives have no part in whether the job moves on.                         *)
(***************************************************************************)
JobSteps ==
  \/ POST
  \/ Start
  \/ EnterScout
  \/ CallScout
  \/ EnterArchitect
  \/ CallArchitect
  \/ EnterCoder
  \/ CallCoder
  \/ EnterQa
  \/ CallQa
  \/ Retry
  \/ RetryCallCoder
  \/ RetryEnterQa
  \/ RetryCallQa
  \/ Finish
  \/ Catch
  \/ Final

NextUntimed ==
  \/ JobSteps
  \/ RedisFails
  \/ RedisRecovers

SpecOutageFair == Init /\ [][NextUntimed]_vars /\ WF_vars(Settles)

ThrownLast == Len(calls) > 0 /\ calls[Len(calls)].ret = "throw"

FailedReturns == {i \in 1..Len(calls) : calls[i].ret = "failed"}

(***************************************************************************)
(* C12: an exception that reaches runAgent is caught once: the JobState    *)
(* runAgent ends with is failed, its errors hold one entry more than the   *)
(* stages had reported, the last entry names the stage that was active     *)
(* (currentNode), and that JobState is the one returned and stored.        *)
(***************************************************************************)
C12CaughtOnce ==
  (pc \in {"final", "done"} /\ ThrownLast) =>
     /\ currentState.status = "failed"
     /\ Len(currentState.errors) = Cardinality(FailedReturns) + 1
     /\ currentState.errors[Len(currentState.errors)].node = calls[Len(calls)].node
     /\ currentState.errors[Len(currentState.errors)].node = currentState.currentNode
     /\ redis = currentState

C12Witness ==
  /\ pc = "done"
  /\ ThrownLast
  /\ calls[Len(calls)].node = "coder"
  /\ currentState.retryCount > 0
  /\ Len(currentState.errors) = 1

StageFailedAt(i) ==
  /\ calls[i].node \in {"coder", "qa"}
  /\ calls[i].ret \in {"failed", "throw"}

CoderOrQaFailed == \E i \in 1..Len(calls) : StageFailedAt(i)

(***************************************************************************)
(* C13: once a coder or QA invocation has failed (returned failed or       *)
(* raised), no later step invokes coderNode or changes retryCount or       *)
(* attemptHistory, and the job ends failed.                                *)
(***************************************************************************)
C13FailedStageNotRetried ==
  /\ [][CoderOrQaFailed =>
          /\ currentState'.retryCount = currentState.retryCount
          /\ currentState'.attemptHistory = currentState.attemptHistory
          /\ (Len(calls') > Len(calls) => calls'[Len(calls')].node # "coder")]_vars
  /\ []((pc = "done" /\ CoderOrQaFailed) => currentState.status = "failed")

C13Witness ==
  /\ pc = "done"
  /\ currentState.retryCount = 1
  /\ Len(currentState.attemptHistory) = 1
  /\ StageFailedAt(Len(calls))
  /\ calls[Len(calls)].node = "coder"
  /\ calls[Len(calls)].ret = "failed"
  /\ currentState.status = "failed"

(***************************************************************************)
(* C14: when the scout invocation failed, the job's final JobState is      *)
(* failed, its errors hold exactly one entry, tagged scout, and its        *)
(* decisionLog is empty.                                                   *)
(***************************************************************************)
C14ScoutFailureAlone ==
  (pc = "done" /\ calls[1].node = "scout" /\ calls[1].ret \in {"failed", "throw"}) =>
     /\ currentState.status = "failed"
     /\ Len(currentState.errors) = 1
     /\ currentState.errors[1].node = "scout"
     /\ currentState.decisionLog = <<>>

(***************************************************************************)
(* The scenario of C15: scout and architect succeed, the first coder+QA    *)
(* attempt is scored below the threshold and sent back, the second         *)
(* coder+QA attempt passes.                                                *)
(***************************************************************************)
SecondAttemptPasses ==
  /\ Len(calls) >= 6
  /\ calls[1].node = "scout" /\ calls[1].ret = "planning"
  /\ calls[2].node = "architect" /\ calls[2].ret = "coding"
  /\ calls[3].node = "coder" /\ calls[3].ret = "qa"
  /\ calls[4].node = "qa" /\ calls[4].qa # <<>>
  /\ calls[4].qa[1].score < PassThreshold
  /\ calls[5].node = "coder" /\ calls[5].ret = "qa"
  /\ calls[6].node = "qa" /\ calls[6].qa # <<>>
  /\ calls[6].qa[1].passed

(***************************************************************************)
(* C15: in that scenario the job ends complete with retryCount = 1, one    *)
(* attemptHistory entry carrying the first attempt's score, coderNode      *)
(* invoked exactly twice and qaNode exactly twice.                         *)
(***************************************************************************)
C15SecondAttemptPasses ==
  (pc = "done" /\ SecondAttemptPasses) =>
     /\ currentState.status = "complete"
     /\ currentState.retryCount = 1
     /\ Len(currentState.attemptHistory) = 1
     /\ currentState.attemptHistory[1].qaScore = calls[4].qa[1].score
     /\ CountCalls("coder") = 2
     /\ CountCalls("qa") = 2

C15Witness ==
  /\ pc = "done"
  /\ SecondAttemptPasses
  /\ currentState.qaResult.passed
  /\ currentState.attemptHistory[1].qaScore < PassThreshold

CoderCallIndexes == {i \in 1..Len(calls) : calls[i].node = "coder"}

CoderUnparseable ==
  \E i \in 1..Len(currentState.errors) :
     currentState.errors[i] = [node |-> "coder", error |-> "invalid JSON"]

(***************************************************************************)
(* C16 (as stated): when every coder response was unparseable, the job     *)
(* has made maxRetries+1 coder attempts and ends complete.                 *)
(***************************************************************************)
C16AllAttemptsThenComplete ==
  (pc = "done" /\ CoderUnparseable /\ \A i \in CoderCallIndexes : calls[i].ret = "failed") =>
     /\ CountCalls("coder") = MaxRetries + 1
     /\ currentState.status = "complete"

(***************************************************************************)
(* C16 (amended): an unparseable coder response makes coderNode return     *)
(* failed; that invocation is the job's last coder invocation and the job  *)
(* ends failed; when it is the first attempt coderNode ran exactly once.   *)
(***************************************************************************)
C16ParseFailureEndsJob ==
  (pc = "done" /\ CoderUnparseable) =>
     /\ currentState.status = "failed"
     /\ \A i \in CoderCallIndexes :
          (\A j \in CoderCallIndexes : j <= i) => calls[i].ret = "failed"
     /\ calls[3].ret = "failed" => CountCalls("coder") = 1

C16Witness ==
  /\ pc = "done"
  /\ CoderUnparseable
  /\ Len(currentState.errors) = 2
  /\ CountCalls("coder") = 1
  /\ CountCalls("qa") = 1
  /\ currentState.status = "failed"

(***************************************************************************)
(* The text gateway: callLLMWithFallback (architect) and                   *)
(* callCoderLLMWithFallback (coder).  Error messages are character tuples  *)
(* so that `includes` is computed on them.                                 *)
(***************************************************************************)
GEMINI_FALLBACK_MODELS ==
  <<"gemini-2.5-pro", "gemini-2.5-flash", "gemini-pro-latest", "gemini-2.0-flash-001">>

Candidates(modelType) ==
  IF modelType = "claude" THEN <<"claude-3-5-sonnet-20241022">>
  ELSE IF modelType = "openai" THEN <<"gpt-4o">>
  ELSE GEMINI_FALLBACK_MODELS

ModelTypes == {"claude", "gemini", "openai"}

S_429 == <<"4", "2", "9">>
S_quota == <<"q", "u", "o", "t", "a">>
S_400 == <<"4", "0", "0">>
S_token == <<"t", "o", "k", "e", "n">>
S_exceeds == <<"e", "x", "c", "e", "e", "d", "s">>
S_1048576 == <<"1", "0", "4", "8", "5", "7", "6">>
M_RateLimit ==
  <<"4", "2", "9", " ", "T", "o", "o", " ", "M", "a", "n", "y", " ", "R",
    "e", "q", "u", "e", "s", "t", "s">>
M_Quota ==
  <<"q", "u", "o", "t", "a", " ", "e", "x", "h", "a", "u", "s", "t", "e",
    "d">>
M_TokenCount ==
  <<"4", "0", "0", " ", "t", "o", "k", "e", "n", " ", "c", "o", "u", "n",
    "t">>
M_Exceeds ==
  <<"4", "0", "0", " ", "i", "n", "p", "u", "t", " ", "e", "x", "c", "e",
    "e", "d", "s", " ", "l", "i", "m", "i", "t">>
M_MaxTokens ==
  <<"4", "0", "0", " ", "m", "a", "x", " ", "1", "0", "4", "8", "5", "7",
    "6">>
M_BadRequest ==
  <<"4", "0", "0", " ", "B", "a", "d", " ", "R", "e", "q", "u", "e", "s",
    "t">>
M_Server == <<"5", "0", "0", " ", "I", "n", "t", "e", "r", "n", "a", "l">>
M_ApiKey ==
  <<"i", "n", "v", "a", "l", "i", "d", " ", "a", "p", "i", " ", "k", "e",
    "y">>
M_ToString == <<"E", "r", "r", "o", "r">>
M_Exhausted ==
  <<"A", "l", "l", " ", "G", "e", "m", "i", "n", "i", " ", "m", "o", "d",
    "e", "l", "s", " ", "e", "x", "c", "e", "e", "d", "e", "d", " ", "q",
    "u", "o", "t", "a", "/", "t", "o", "k", "e", "n", " ", "l", "i", "m",
    "i", "t", "s", " ", "o", "r", " ", "u", "n", "a", "v", "a", "i", "l",
    "a", "b", "l", "e">>

(***************************************************************************)
(* What a provider call does: it answers, or raises an error of one of     *)
(* the classes quota/rate-limit, input-size/token-limit, other, carrying   *)
(* the message the provider gives to errors of that class.                 *)
(***************************************************************************)
O_ok == [kind |-> "ok"]

ProviderErrors ==
  {[kind |-> "error", class |-> "quota", message |-> m] : m \in {M_RateLimit, M_Quota}}
  \cup {[kind |-> "error", class |-> "size", message |-> m] :
          m \in {M_TokenCount, M_Exceeds, M_MaxTokens}}
  \cup {[kind |-> "error", class |-> "other", message |-> m] :
          m \in {M_BadRequest, M_Server, M_ApiKey, <<>>}}

ProviderOutcomes == {O_ok} \cup ProviderErrors

ErrorMsg(error) == IF Truthy(error.message) THEN error.message ELSE M_ToString

IsQuotaError(errorMsg) == Includes(errorMsg, S_429) \/ Includes(errorMsg, S_quota)

IsTokenLimitError(errorMsg) ==
  /\ Includes(errorMsg, S_400)
  /\ \/ Includes(errorMsg, S_token)
     \/ Includes(errorMsg, S_exceeds)
     \/ Includes(errorMsg, S_1048576)

Pending == [kind |-> "pending"]

Text(model) == [kind |-> "text", model |-> model]

Throw(error) == [kind |-> "throw", error |-> error]

ExhaustedError == [kind |-> "error", class |-> "exhausted", message |-> M_Exhausted]

(***************************************************************************)
(* One provider call of a gateway call: `i` is the candidate called and    *)
(* `outcome` what the provider does; the value gives the candidate to call *)
(* next and the gateway's result so far.  Falling out of the loop raises   *)
(* the final error in the same step.                                       *)
(***************************************************************************)
callLLMWithFallbackSkipsAll(modelType, i, outcome) ==
  IF outcome.kind = "ok"
    THEN [i |-> i, result |-> Text(Candidates(modelType)[i])]
  ELSE IF modelType \in {"claude", "openai"}
    THEN [i |-> i, result |-> Throw(outcome)]
  ELSE IF i < Len(GEMINI_FALLBACK_MODELS)
    THEN [i |-> i + 1, result |-> Pending]
    ELSE [i |-> i + 1, result |-> Throw(ExhaustedError)]

callLLMWithFallback(modelType, i, outcome) ==
  IF outcome.kind = "ok"
    THEN [i |-> i, result |-> Text(Candidates(modelType)[i])]
  ELSE IF modelType \in {"claude", "openai"}
    THEN [i |-> i, result |-> Throw(outcome)]
  ELSE IF IsQuotaError(ErrorMsg(outcome)) \/ IsTokenLimitError(ErrorMsg(outcome))
    THEN IF i < Len(GEMINI_FALLBACK_MODELS)
           THEN [i |-> i + 1, result |-> Pending]
           ELSE [i |-> i + 1, result |-> Throw(ExhaustedError)]
    ELSE [i |-> i, result |-> Throw(outcome)]

callCoderLLMWithFallback(modelType, i, outcome) ==
  IF outcome.kind = "ok"
    THEN [i |-> i, result |-> Text(Candidates(modelType)[i])]
  ELSE IF modelType \in {"claude", "openai"}
    THEN [i |-> i, result |-> Throw(outcome)]
  ELSE IF IsQuotaError(ErrorMsg(outcome)) \/ IsTokenLimitError(ErrorMsg(outcome))
    THEN IF i < Len(GEMINI_FALLBACK_MODELS)
           THEN [i |-> i + 1, result |-> Pending]
           ELSE [i |-> i + 1, result |-> Throw(ExhaustedError)]
    ELSE [i |-> i, result |-> Throw(outcome)]

GatewayFunctions == {"callLLMWithFallback", "callCoderLLMWithFallback"}

(***************************************************************************)
(* A job's gateway calls taken on their own: `nth` counts the calls made   *)
(* so far, `tried` lists the provider calls of the current gateway call.   *)
(***************************************************************************)
MaxGatewayCalls == 2

NewGatewayCall(fn, modelType, nth) ==
  [kind |-> "gateway", fn |-> fn, modelType |-> modelType, nth |-> nth,
   i |-> 1, tried |-> <<>>, result |-> Pending]

GatewayStep(u, outcome) ==
  IF u.fn = "callLLMWithFallback"
    THEN callLLMWithFallback(u.modelType, u.i, outcome)
    ELSE callCoderLLMWithFallback(u.modelType, u.i, outcome)

GatewayInit ==
  /\ JobInit
  /\ unit \in {NewGatewayCall(fn, t, 1) : fn \in GatewayFunctions, t \in ModelTypes}

GatewayTry ==
  /\ unit.result = Pending
  /\ \E outcome \in ProviderOutcomes :
       unit' = [unit EXCEPT
                  !.tried = Append(@, [model |-> Candidates(unit.modelType)[unit.i],
                                       outcome |-> outcome]),
                  !.i = GatewayStep(unit, outcome).i,
                  !.result = GatewayStep(unit, outcome).result]
  /\ UNCHANGED <<pc, currentState, local, redis, redisUp, wrote, now, calls>>

GatewayCallAgain ==
  /\ unit.result # Pending
  /\ unit.nth < MaxGatewayCalls
  /\ \E fn \in GatewayFunctions :
       unit' = NewGatewayCall(fn, unit.modelType, unit.nth + 1)
  /\ UNCHANGED <<pc, currentState, local, redis, redisUp, wrote, now, calls>>

GatewayNext ==
  \/ GatewayTry
  \/ GatewayCallAgain

SpecGateway == GatewayInit /\ [][GatewayNext]_vars

Recoverable(outcome) == outcome.kind = "error" /\ outcome.class \in {"quota", "size"}

LastTried == unit.tried[Len(unit.tried)]

InFixedOrder ==
  /\ Len(unit.tried) <= Len(Candidates(unit.modelType))
  /\ \A k \in 1..Len(unit.tried) : unit.tried[k].model = Candidates(unit.modelType)[k]
  /\ \A k \in 1..(Len(unit.tried) - 1) : Recoverable(unit.tried[k].outcome)

AllRecoverable ==
  /\ Len(unit.tried) = Len(Candidates(unit.modelType))
  /\ \A k \in 1..Len(unit.tried) : Recoverable(unit.tried[k].outcome)

(***************************************************************************)
(* C17 (as stated): candidates are called in list order, a later one only  *)
(* after recoverable errors of all earlier ones; a success is returned,    *)
(* any other error is propagated at once, and when every candidate raised  *)
(* a recoverable error the 'all candidates exhausted' error is raised.     *)
(***************************************************************************)
C17OrderedFallback ==
  unit.kind = "gateway" =>
    /\ InFixedOrder
    /\ unit.result = Pending <=>
         /\ Len(unit.tried) < Len(Candidates(unit.modelType))
         /\ \A k \in 1..Len(unit.tried) : Recoverable(unit.tried[k].outcome)
    /\ (unit.tried # <<>> /\ LastTried.outcome.kind = "ok") =>
         unit.result = Text(LastTried.model)
    /\ (unit.tried # <<>> /\ LastTried.outcome.kind = "error"
          /\ ~Recoverable(LastTried.outcome)) =>
         unit.result = Throw(LastTried.outcome)
    /\ AllRecoverable => unit.result = Throw(ExhaustedError)

(***************************************************************************)
(* C17 (amended): the same for model type gemini; with model type claude   *)
(* or openai the single candidate is called once and whatever it raises,   *)
(* recoverable or not, is propagated as it is.                             *)
(***************************************************************************)
C17GeminiFallback ==
  unit.kind = "gateway" =>
    /\ InFixedOrder
    /\ (unit.tried # <<>> /\ LastTried.outcome.kind = "ok") =>
         unit.result = Text(LastTried.model)
    /\ unit.modelType = "gemini" =>
         /\ unit.result = Pending <=>
              /\ Len(unit.tried) < Len(GEMINI_FALLBACK_MODELS)
              /\ \A k \in 1..Len(unit.tried) : Recoverable(unit.tried[k].outcome)
         /\ (unit.tried # <<>> /\ LastTried.outcome.kind = "error"
               /\ ~Recoverable(LastTried.outcome)) =>
              unit.result = Throw(LastTried.outcome)
         /\ AllRecoverable => unit.result = Throw(ExhaustedError)
    /\ unit.modelType # "gemini" =>
         /\ unit.result = Pending <=> unit.tried = <<>>
         /\ (unit.tried # <<>> /\ LastTried.outcome.kind = "error") =>
              unit.result = Throw(LastTried.outcome)

C17Witness ==
  /\ unit.kind = "gateway"
  /\ unit.modelType = "gemini"
  /\ unit.nth = MaxGatewayCalls
  /\ Len(unit.tried) = 3
  /\ unit.tried[1].outcome.class = "quota"
  /\ unit.tried[2].outcome.class = "size"
  /\ unit.tried[3].outcome.kind = "ok"
  /\ unit.result = Text(GEMINI_FALLBACK_MODELS[3])

(***************************************************************************)
(* qaNode's scoring taken on its own: the four metrics of a vision         *)
(* response are drawn from MetricSamples and the ValidationResult is built *)
(* from them.                                                              *)
(***************************************************************************)
MetricSamples == {0, 2, 3, 60, 67, 81, 85, 90, 99, 100}

ScoreInit ==
  /\ JobInit
  /\ unit \in {[kind |-> "score", metrics |-> <<s, v, l, c>>, result |-> Pending] :
                 s \in MetricSamples, v \in MetricSamples,
                 l \in MetricSamples, c \in MetricSamples}

ScoreApply ==
  /\ unit.kind = "score"
  /\ unit.result = Pending
  /\ unit' = [unit EXCEPT
                !.result = MakeQaResult([metrics |-> unit.metrics, issues |-> <<>>])]
  /\ UNCHANGED <<pc, currentState, local, redis, redisUp, wrote, now, calls>>

ScoreNext == ScoreApply

SpecScore == ScoreInit /\ [][ScoreNext]_vars

Scored == unit.kind = "score" /\ unit.result # Pending

WeightedSumTimes10(m) == 4 * m[1] + 3 * m[2] + 2 * m[3] + m[4]

(***************************************************************************)
(* C18: the score of a ValidationResult is the weighted sum of its four    *)
(* metrics, 0.4 s + 0.3 v + 0.2 l + 0.1 c, rounded to the nearest integer  *)
(* with halves rounded up.                                                 *)
(***************************************************************************)
C18ScoreIsRoundedSum ==
  Scored => unit.result.score = (WeightedSumTimes10(unit.result.metrics) + 5) \div 10

(***************************************************************************)
(* C19: a ValidationResult is passed exactly when its rounded score is at  *)
(* least 90.                                                               *)
(***************************************************************************)
C19PassedIffScore ==
  Scored => (unit.result.passed <=> unit.result.score >= PassThreshold)

(***************************************************************************)
(* coderNode taken on its own: the files of the model's response are one   *)
(* or two entries with distinct keys, the JobState it is given has the     *)
(* scout data and may already carry an error.                              *)
(***************************************************************************)
FileKeys == {K_App, K_SlashApp, K_app, K_SrcApp, K_Main, K_Nav, K_Index}

FileTexts == {T_AppSource, T_NavSource, T_Empty, T_RemoteImg, T_LocalImg}

FileEntries == {[key |-> k, value |-> v] : k \in FileKeys, v \in FileTexts}

FileMaps ==
  {<<a>> : a \in FileEntries}
  \cup {p \in FileEntries \X FileEntries : p[1].key # p[2].key}

CoderStates ==
  {Merge(initialState, [scoutData |-> Snapshot, status |-> "coding",
                        currentNode |-> "coder", errors |-> errs]) :
     errs \in {<<>>, <<[node |-> "architect", error |-> "planning"]>>}}

CoderInit ==
  /\ JobInit
  /\ unit \in {[kind |-> "coder", state |-> s, files |-> f, result |-> Pending] :
                 s \in CoderStates, f \in FileMaps}

CoderApply ==
  /\ unit.kind = "coder"
  /\ unit.result = Pending
  /\ unit' = [unit EXCEPT
                !.result = coderNode(unit.state, [kind |-> "files", files |-> unit.files])]
  /\ UNCHANGED <<pc, currentState, local, redis, redisUp, wrote, now, calls>>

CoderNext == CoderApply

SpecCoder == CoderInit /\ [][CoderNext]_vars

Coded == unit.kind = "coder" /\ unit.result # Pending

NoEntryKey(files) == \A i \in 1..Len(files) : ~IsMainKey(files[i])

(***************************************************************************)
(* C20: a successful coderNode result has the key App.tsx and its value is *)
(* the source text of one of the files of the model's response; a response *)
(* with no key holding `app` or `main` or ending in `.tsx` gives a failed  *)
(* result with one more error entry, tagged coder.                         *)
(***************************************************************************)
C20EntryFileIsSource ==
  Coded =>
    /\ unit.result.status = "qa" =>
         /\ HasKey(unit.result.generatedCode.files, K_App)
         /\ \E i \in 1..Len(unit.files) :
              Lookup(unit.result.generatedCode.files, K_App) = unit.files[i].value
    /\ NoEntryKey(unit.files) =>
         /\ unit.result.status = "failed"
         /\ Len(unit.result.errors) = Len(unit.state.errors) + 1
         /\ unit.result.errors[Len(unit.result.errors)].node = "coder"

ReferencesOriginal(text, assets) ==
  \E a \in 1..Len(assets) : Includes(text, assets[a].originalUrl)

(***************************************************************************)
(* C21: in a GeneratedOutput returned by coderNode no file's source text   *)
(* references an asset by an original URL of the snapshot's asset list.    *)
(***************************************************************************)
C21AssetsRemapped ==
  (Coded /\ unit.result.status = "qa") =>
     \A i \in 1..Len(unit.result.generatedCode.files) :
        ~ReferencesOriginal(unit.result.generatedCode.files[i].value,
                            unit.state.scoutData.assets)

(***************************************************************************)
(* GET /api/stream: one stream polling the stored JobState of the job.     *)
(* `unit` holds the closure variables of `start`, the events enqueued so   *)
(* far, the number of polls made and why the stream was closed; as history *)
(* each event carries the poll that enqueued it and the number of the      *)
(* ValidationResult stored at that poll, and `observed` lists that number  *)
(* for every poll.                                                         *)
(***************************************************************************)
MaxPolls == 2

NewStream ==
  [kind |-> "stream",
   lastDecisionCount |-> 0,
   lastErrorCount |-> 0,
   lastStatus |-> "",
   lastProgress |-> 0,
   qaIssuesSent |-> FALSE,
   qaMetricsSent |-> FALSE,
   events |-> << [type |-> "status", data |-> "pending"] >>,
   polls |-> 0,
   observed |-> <<>>,
   closed |-> "open"]

Enqueue(u, evs) == [u EXCEPT !.events = @ \o evs]

Drop(s, n) == SubSeq(s, n + 1, Len(s))

Tagged(type, s) == [i \in 1..Len(s) |-> [type |-> type, data |-> s[i]]]

SendStatus(u, state) ==
  IF state.status # u.lastStatus
    THEN [Enqueue(u, << [type |-> "status", data |-> state.status] >>)
            EXCEPT !.lastStatus = state.status]
    ELSE u

SendDecisionsStuck(u, state) ==
  IF Len(state.decisionLog) > u.lastDecisionCount
    THEN Enqueue(u, Tagged("decision", Drop(state.decisionLog, u.lastDecisionCount)))
    ELSE u

SendDecisions(u, state) ==
  IF Len(state.decisionLog) > u.lastDecisionCount
    THEN [Enqueue(u, Tagged("decision", Drop(state.decisionLog, u.lastDecisionCount)))
            EXCEPT !.lastDecisionCount = Len(state.decisionLog)]
    ELSE u

SendErrors(u, state) ==
  IF Len(state.errors) > u.lastErrorCount
    THEN [Enqueue(u, Tagged("error", Drop(state.errors, u.lastErrorCount)))
            EXCEPT !.lastErrorCount = Len(state.errors)]
    ELSE u

QaVisible(state) == state.status \in {"qa", "complete", "coding"}

SendQaIssues(u, state) ==
  IF /\ Has(state, "qaResult")
     /\ Len(state.qaResult.issues) > 0
     /\ ~u.qaIssuesSent
     /\ QaVisible(state)
    THEN [Enqueue(u, Tagged("qa_issue", state.qaResult.issues))
            EXCEPT !.qaIssuesSent = TRUE]
    ELSE u

SendQaMetrics(u, state) ==
  IF /\ Has(state, "qaResult")
     /\ ~u.qaMetricsSent
     /\ QaVisible(state)
    THEN [Enqueue(u, << [type |-> "qa_metrics",
                         data |-> [score |-> state.qaResult.score,
                                   metrics |-> state.qaResult.metrics,
                                   passed |-> state.qaResult.passed]] >>)
            EXCEPT !.qaMetricsSent = TRUE]
    ELSE u

ResetQaFlagsEachRun(u, state) ==
  IF state.currentNode = "qa" /\ state.status = "qa"
    THEN [u EXCEPT !.qaIssuesSent = FALSE, !.qaMetricsSent = FALSE]
    ELSE u

ResetQaFlags(u, state) ==
  IF state.currentNode = "qa" /\ state.status = "qa" /\ ~Has(state, "qaResult")
    THEN [u EXCEPT !.qaIssuesSent = FALSE, !.qaMetricsSent = FALSE]
    ELSE u

ProgressMap(node) ==
  CASE node = "scout" -> 25
    [] node = "architect" -> 50
    [] node = "coder" -> 75
    [] node = "qa" -> 90
    [] OTHER -> 0

SendProgress(u, state) ==
  IF /\ state.currentNode # "null"
     /\ (u.lastProgress = 0 \/ u.lastProgress # ProgressMap(state.currentNode))
    THEN [Enqueue(u, << [type |-> "progress",
                         data |-> [node |-> state.currentNode,
                                   percent |-> ProgressMap(state.currentNode)]] >>)
            EXCEPT !.lastProgress = ProgressMap(state.currentNode)]
    ELSE u

SendCompletionAnyTerminal(u, state) ==
  IF state.status \in {"complete", "failed"}
    THEN [Enqueue(u, << [type |-> "complete",
                         data |-> [code |-> IF Has(state, "generatedCode")
                                              THEN state.generatedCode
                                              ELSE <<>>,
                                   qaScore |-> IF Has(state, "qaResult")
                                                 THEN state.qaResult.score
                                                 ELSE 0]] >>)
            EXCEPT !.closed = "terminal"]
    ELSE u

SendCompletion(u, state) ==
  IF state.status \in {"complete", "failed"}
    THEN [(IF state.status = "complete" /\ Has(state, "generatedCode")
             THEN Enqueue(u, << [type |-> "complete",
                                 data |-> [code |-> state.generatedCode,
                                           qaScore |-> IF Has(state, "qaResult")
                                                         THEN state.qaResult.score
                                                         ELSE 0]] >>)
             ELSE u)
            EXCEPT !.closed = "terminal"]
    ELSE u

\* one run of the interval callback on the value read from the store
Poll(u, jobData) ==
  IF jobData = NoKey
    THEN u
    ELSE SendCompletion(
           SendProgress(
             ResetQaFlags(
               SendQaMetrics(
                 SendQaIssues(
                   SendErrors(
                     SendDecisions(
                       SendStatus(u, jobData), jobData), jobData), jobData),
                 jobData), jobData), jobData), jobData)

StreamError(message) ==
  [type |-> "error", data |-> [node |-> "stream", error |-> message]]

StreamInit ==
  /\ JobInit
  /\ unit = NewStream

QaResultsSoFar == Cardinality({i \in 1..Len(calls) : calls[i].qa # <<>>})

Stamp(old, new) ==
  [new EXCEPT
     !.events = [i \in 1..Len(new.events) |->
                   IF i <= Len(old.events)
                     THEN new.events[i]
                     ELSE Merge(new.events[i],
                                [poll |-> old.polls + 1, result |-> QaResultsSoFar])],
     !.polls = old.polls + 1,
     !.observed = Append(old.observed, QaResultsSoFar)]

\* the interval fires: the store answers (or the read raises) and the
\* callback runs to its end
StreamPoll ==
  /\ unit.kind = "stream"
  /\ unit.closed = "open"
  /\ unit.polls < MaxPolls
  /\ unit' = Stamp(unit, IF redisUp
                           THEN Poll(unit, redis)
                           ELSE Enqueue(unit, << StreamError("read") >>))
  /\ UNCHANGED <<pc, currentState, local, redis, redisUp, wrote, now, calls>>

\* the interval fires after maxPollTime
StreamTimeout ==
  /\ unit.kind = "stream"
  /\ unit.closed = "open"
  /\ unit' = [Enqueue(unit, << StreamError("Stream timeout") >>)
                EXCEPT !.closed = "timeout"]
  /\ UNCHANGED <<pc, currentState, local, redis, redisUp, wrote, now, calls>>

\* the client disconnects
StreamAbort ==
  /\ unit.kind = "stream"
  /\ unit.closed = "open"
  /\ unit' = [unit EXCEPT !.closed = "abort"]
  /\ UNCHANGED <<pc, currentState, local, redis, redisUp, wrote, now, calls>>

StreamNext ==
  \/ JobSteps
  \/ StreamPoll
  \/ StreamTimeout
  \/ StreamAbort

SpecStream == StreamInit /\ [][StreamNext]_vars

EventsOf(type) == {i \in 1..Len(unit.events) : unit.events[i].type = type}

DataOf(type) ==
  LET RECURSIVE Pick(_)
      Pick(n) == IF n = 0 THEN <<>>
                 ELSE IF unit.events[n].type = type
                   THEN Append(Pick(n - 1), unit.events[n].data)
                   ELSE Pick(n - 1)
  IN  Pick(Len(unit.events))

(***************************************************************************)
(* C22: a stream emits at most one qa_metrics event and at most one batch  *)
(* of qa_issue events (the events of one poll) for one ValidationResult.   *)
(***************************************************************************)
C22QaEventsOnce ==
  unit.kind = "stream" =>
    /\ \A i, j \in EventsOf("qa_metrics") :
         unit.events[i].result = unit.events[j].result => i = j
    /\ \A i, j \in EventsOf("qa_issue") :
         unit.events[i].result = unit.events[j].result =>
            unit.events[i].poll = unit.events[j].poll

C22Witness ==
  /\ unit.kind = "stream"
  /\ unit.observed = <<1, 1>>
  /\ Cardinality(EventsOf("qa_metrics")) = 1
  /\ Cardinality(EventsOf("qa_issue")) = 2
  /\ \A i \in EventsOf("qa_issue") : unit.events[i].poll = 1

(***************************************************************************)
(* C23: the decision events a stream has emitted are, in order, a prefix   *)
(* of the decisionLog of the job's stored state.                           *)
(***************************************************************************)
C23DecisionsArePrefix ==
  unit.kind = "stream" /\ DataOf("decision") # <<>> =>
    /\ redis # NoKey
    /\ IsPrefix(DataOf("decision"), redis.decisionLog)

C23Witness ==
  /\ unit.kind = "stream"
  /\ unit.polls = 2
  /\ \E i, j \in EventsOf("decision") :
       unit.events[i].poll = 1 /\ unit.events[j].poll = 2
  /\ Len(DataOf("decision")) < Len(redis.decisionLog)

(***************************************************************************)
(* C24: once the job is over, a stream that ended on a terminal status has *)
(* emitted one error event for every entry of the final state's errors.    *)
(***************************************************************************)
C24AllErrorsSurfaced ==
  unit.kind = "stream" /\ unit.closed = "terminal" /\ pc = "done" =>
    DataOf("error") = redis.errors

(***************************************************************************)
(* C25: a stream that ended on a terminal status has emitted exactly one   *)
(* complete event, and it is the last event of the stream.                 *)
(***************************************************************************)
C25CompleteIsLast ==
  unit.kind = "stream" /\ unit.closed = "terminal" =>
    /\ Cardinality(EventsOf("complete")) = 1
    /\ unit.events[Len(unit.events)].type = "complete"

\* C25 as the route behaves: a stream that ended on status complete has
\* emitted exactly one complete event, its last event, carrying the stored
\* code and score; a stream that ended on status failed has emitted none.
C25CompleteOnlyOnComplete ==
  unit.kind = "stream" /\ unit.closed = "terminal" =>
    IF unit.lastStatus = "complete"
      THEN /\ Cardinality(EventsOf("complete")) = 1
           /\ unit.events[Len(unit.events)].type = "complete"
           /\ unit.events[Len(unit.events)].data.code = redis.generatedCode
           /\ unit.events[Len(unit.events)].data.qaScore = redis.qaResult.score
      ELSE /\ unit.lastStatus = "failed"
           /\ EventsOf("complete") = {}

C25Witness ==
  /\ unit.kind = "stream"
  /\ unit.closed = "terminal"
  /\ unit.lastStatus = "complete"
  /\ unit.events[Len(unit.events)].type = "complete"
  /\ unit.polls = 2

C25FailedWitness ==
  /\ unit.kind = "stream"
  /\ unit.closed = "terminal"
  /\ unit.lastStatus = "failed"
  /\ FailedReturns = {}

(***************************************************************************)
(* The asset cache of scoutNode.  Two jobs extract one image URL.  The     *)
(* cache entry is the file _cache/<md5(url)>.<ext>; a file is whether it   *)
(* exists and the chunks it holds.  writeFile creates or truncates the     *)
(* file and then writes the buffer chunk by chunk, every step an await at  *)
(* which the other job can run.                                            *)
(***************************************************************************)
MaxChunks == 3

Jobs == {1, 2}

AssetSizes == 1..MaxChunks

\* the body the remote answers for the URL, as its chunks
ResponseBody(size) == [i \in 1..size |-> i]

NoFile == [exists |-> FALSE, bytes |-> <<>>]

File(bytes) == [exists |-> TRUE, bytes |-> bytes]

NewAssetJob ==
  [pc |-> "access", cachedExists |-> FALSE, buffer |-> <<>>, offset |-> 0,
   jobPath |-> NoFile, downloads |-> 0]

NewAssets(size, cached) ==
  [kind |-> "assets",
   size |-> size,
   cachePath |-> IF cached THEN File(ResponseBody(size)) ELSE NoFile,
   job |-> [j \in Jobs |-> NewAssetJob]]

AssetsInit ==
  /\ JobInit
  /\ \E size \in AssetSizes, cached \in BOOLEAN : unit = NewAssets(size, cached)

AtAsset(j, at) == unit.kind = "assets" /\ unit.job[j].pc = at

AssetFrame == UNCHANGED <<pc, currentState, local, redis, redisUp, wrote, now, calls>>

\* const cachedExists = await fileExists(cachePath)
fileExists(j) ==
  /\ AtAsset(j, "access")
  /\ unit' = [unit EXCEPT !.job[j].cachedExists = unit.cachePath.exists,
                          !.job[j].pc = IF unit.cachePath.exists
                                          THEN "readFile" ELSE "get"]
  /\ AssetFrame

\* const cachedBuffer = await readFile(cachePath)
ReadCache(j) ==
  /\ AtAsset(j, "readFile")
  /\ unit' = [unit EXCEPT !.job[j].buffer = unit.cachePath.bytes,
                          !.job[j].pc = "writeJob"]
  /\ AssetFrame

\* const response = await page.context().request.get(absoluteUrl);
\* const buffer = await response.body()
Download(j) ==
  /\ AtAsset(j, "get")
  /\ unit' = [unit EXCEPT !.job[j].buffer = ResponseBody(unit.size),
                          !.job[j].downloads = @ + 1,
                          !.job[j].pc = "openCache"]
  /\ AssetFrame

\* await writeFile(cachePath, buffer): the file is created or truncated
OpenCache(j) ==
  /\ AtAsset(j, "openCache")
  /\ unit' = [unit EXCEPT !.cachePath = File(<<>>),
                          !.job[j].pc = "writeCache"]
  /\ AssetFrame

\* a write of one chunk at offset k of a file; a gap before k reads as 0
WriteAt(bytes, k, chunk) ==
  [i \in 1..(IF Len(bytes) > k THEN Len(bytes) ELSE k) |->
     IF i = k THEN chunk ELSE IF i <= Len(bytes) THEN bytes[i] ELSE 0]

\* await writeFile(cachePath, buffer): the next chunk is written at the
\* writer's own offset
WriteCacheChunk(j) ==
  /\ AtAsset(j, "writeCache")
  /\ LET k == unit.job[j].offset + 1
     IN  unit' = [unit EXCEPT !.cachePath = File(WriteAt(unit.cachePath.bytes, k,
                                                         unit.job[j].buffer[k])),
                              !.job[j].offset = k,
                              !.job[j].pc = IF k = Len(unit.job[j].buffer)
                                              THEN "writeJob" ELSE "writeCache"]
  /\ AssetFrame

\* await writeFile(jobPath, ...): the job's own copy, which no other job
\* touches; then assets.push
WriteJob(j) ==
  /\ AtAsset(j, "writeJob")
  /\ unit' = [unit EXCEPT !.job[j].jobPath = File(unit.job[j].buffer),
                          !.job[j].pc = "pushed"]
  /\ AssetFrame

AssetsNext ==
  \E j \in Jobs :
    \/ fileExists(j)
    \/ ReadCache(j)
    \/ Download(j)
    \/ OpenCache(j)
    \/ WriteCacheChunk(j)
    \/ WriteJob(j)

SpecAssets == AssetsInit /\ [][AssetsNext]_vars

(***************************************************************************)
(* C26: a job that found the cache entry downloads nothing and its copy    *)
(* holds the complete bytes of the download; when both jobs are through    *)
(* their copies are equal.                                                 *)
(***************************************************************************)
C26CacheHitIsComplete ==
  unit.kind = "assets" =>
    /\ \A j \in Jobs :
         unit.job[j].pc = "pushed" /\ unit.job[j].cachedExists =>
           /\ unit.job[j].downloads = 0
           /\ unit.job[j].jobPath = File(ResponseBody(unit.size))
    /\ (\A j \in Jobs : unit.job[j].pc = "pushed") =>
         unit.job[1].jobPath = unit.job[2].jobPath

(***************************************************************************)
(* The paired-image gateway of qaNode, one provider call at a time like    *)
(* the text gateway above.                                                 *)
(***************************************************************************)
GEMINI_VISION_FALLBACK_MODELS ==
  <<"gemini-2.5-pro", "gemini-2.5-flash", "gemini-pro-latest", "gemini-2.0-flash-001">>

VisionCandidates(isGemini) ==
  IF isGemini THEN GEMINI_VISION_FALLBACK_MODELS ELSE <<"gpt-4o">>

M_VisionExhausted ==
  <<"A", "l", "l", " ", "G", "e", "m", "i", "n", "i", " ", "m", "o", "d",
    "e", "l", "s", " ", "e", "x", "c", "e", "e", "d", "e", "d", " ", "q",
    "u", "o", "t", "a", " ", "o", "r", " ", "u", "n", "a", "v", "a", "i",
    "l", "a", "b", "l", "e">>

VisionExhaustedError ==
  [kind |-> "error", class |-> "exhausted", message |-> M_VisionExhausted]

callVisionAPIWithFallback(isGemini, i, outcome) ==
  IF outcome.kind = "ok"
    THEN [i |-> i, result |-> Text(VisionCandidates(isGemini)[i])]
  ELSE IF ~isGemini
    THEN [i |-> i, result |-> Throw(outcome)]
  ELSE IF Includes(outcome.message, S_429) \/ Includes(outcome.message, S_quota)
    THEN IF i < Len(GEMINI_VISION_FALLBACK_MODELS)
           THEN [i |-> i + 1, result |-> Pending]
           ELSE [i |-> i + 1, result |-> Throw(VisionExhaustedError)]
    ELSE [i |-> i, result |-> Throw(outcome)]

NewVisionCall(isGemini, nth) ==
  [kind |-> "vision", isGemini |-> isGemini, nth |-> nth,
   i |-> 1, tried |-> <<>>, result |-> Pending]

VisionInit ==
  /\ JobInit
  /\ unit \in {NewVisionCall(g, 1) : g \in BOOLEAN}

VisionTry ==
  /\ unit.result = Pending
  /\ \E outcome \in ProviderOutcomes :
       LET step == callVisionAPIWithFallback(unit.isGemini, unit.i, outcome)
       IN  unit' = [unit EXCEPT
                      !.tried = Append(@, [model |-> VisionCandidates(unit.isGemini)[unit.i],
                                           outcome |-> outcome]),
                      !.i = step.i,
                      !.result = step.result]
  /\ UNCHANGED <<pc, currentState, local, redis, redisUp, wrote, now, calls>>

VisionCallAgain ==
  /\ unit.result # Pending
  /\ unit.nth < MaxGatewayCalls
  /\ unit' = NewVisionCall(unit.isGemini, unit.nth + 1)
  /\ UNCHANGED <<pc, currentState, local, redis, redisUp, wrote, now, calls>>

VisionNext ==
  \/ VisionTry
  \/ VisionCallAgain

SpecVision == VisionInit /\ [][VisionNext]_vars

(***************************************************************************)
(* C27: in callVisionAPIWithFallback a quota/rate-limit error and an       *)
(* input-size/token-limit error of a candidate both make the gateway go on *)
(* to the next candidate (or raise the exhausted error after the last);    *)
(* any other error is propagated at once.                                  *)
(***************************************************************************)
C27VisionSameClassification ==
  unit.kind = "vision" /\ unit.isGemini /\ unit.tried # <<>>
    /\ LastTried.outcome.kind = "error" =>
      IF Recoverable(LastTried.outcome)
        THEN unit.result = IF Len(unit.tried) < Len(GEMINI_VISION_FALLBACK_MODELS)
                             THEN Pending ELSE Throw(VisionExhaustedError)
        ELSE unit.result = Throw(LastTried.outcome)

(***************************************************************************)
(* architectNode's chunked planning taken on its own.  A list of the       *)
(* snapshot is its length, an item its position, a slice the positions     *)
(* lo+1..hi; a model response is named by the call that returned it; text  *)
(* that is built by concatenation is the sequence of its parts.            *)
(***************************************************************************)
ChunkSize == 300

maxChunksToProcess == 20

SummaryEvery == 3

StyleCounts == {0, 5101}

LayoutCounts == {0, 700}

AnimationCounts == {0, 1}

ScoutLists ==
  [computedStyles : StyleCounts, layout : LayoutCounts, animations : AnimationCounts]

Ceil(n, d) == (n + d - 1) \div d

Floor(n, d) == n \div d

Smaller(a, b) == IF a < b THEN a ELSE b

\* list.slice(lo, hi) of a list of `len` items
Slice(lo, hi, len) == [lo |-> Smaller(lo, len), hi |-> Smaller(hi, len)]

TypeChunks(type, len, chunkSize) ==
  [k \in 1..Ceil(len, chunkSize) |->
     [type |-> type,
      data |-> Slice((k - 1) * chunkSize, k * chunkSize, len),
      index |-> k - 1,
      total |-> Ceil(len, chunkSize)]]

chunkScoutData(scoutData, chunkSize) ==
  TypeChunks("styles", scoutData.computedStyles, chunkSize)
    \o TypeChunks("layout", scoutData.layout, chunkSize)
    \o TypeChunks("animations", scoutData.animations, chunkSize)

chunksToProcessAll(scoutData) == chunkScoutData(scoutData, ChunkSize)

chunksToProcess(scoutData) ==
  SubSeq(chunkScoutData(scoutData, ChunkSize), 1,
         Smaller(maxChunksToProcess, Len(chunkScoutData(scoutData, ChunkSize))))

\* const halfSize = Math.floor(chunk.data.length / 2); chunk1, chunk2
SplitChunkDropsOne(chunk) ==
  LET halfSize == Floor(chunk.data.hi - chunk.data.lo, 2)
  IN  << [chunk EXCEPT !.data = [lo |-> chunk.data.lo, hi |-> chunk.data.lo + halfSize]],
         [chunk EXCEPT !.data = [lo |-> Smaller(chunk.data.lo + halfSize + 1, chunk.data.hi),
                                 hi |-> chunk.data.hi]] >>

SplitChunk(chunk) ==
  LET halfSize == Floor(chunk.data.hi - chunk.data.lo, 2)
  IN  << [chunk EXCEPT !.data = [lo |-> chunk.data.lo, hi |-> chunk.data.lo + halfSize]],
         [chunk EXCEPT !.data = [lo |-> chunk.data.lo + halfSize, hi |-> chunk.data.hi]] >>

E_Rate == [kind |-> "error", class |-> "quota", message |-> M_RateLimit]

E_Token == [kind |-> "error", class |-> "size", message |-> M_TokenCount]

E_Exceeds == [kind |-> "error", class |-> "size", message |-> M_Exceeds]

E_Server == [kind |-> "error", class |-> "other", message |-> M_Server]

\* what the candidates do, in list order, during one gateway call
OutcomeRuns ==
  { <<O_ok, O_ok, O_ok, O_ok>>,
    <<E_Rate, O_ok, O_ok, O_ok>>,
    <<E_Token, E_Token, E_Token, E_Token>>,
    <<E_Exceeds, E_Rate, E_Token, E_Exceeds>>,
    <<E_Rate, E_Rate, E_Rate, E_Rate>>,
    <<E_Server, E_Server, E_Server, E_Server>> }

\* await callLLMWithFallback(prompt, modelType): the result and the
\* outcome of the candidate called last
RECURSIVE GatewayRun(_, _, _)
GatewayRun(modelType, i, run) ==
  LET step == callLLMWithFallback(modelType, i, run[i])
  IN  IF step.result = Pending
        THEN GatewayRun(modelType, step.i, run)
        ELSE [result |-> step.result, cause |-> run[i]]

Resp(call, i) == [call |-> call, i |-> i]

\* error.message?.includes('token') || error.message?.includes('exceeds')
TooLarge(error) ==
  Includes(error.message, S_token) \/ Includes(error.message, S_exceeds)

\* planSummary || accumulatedContext.slice(0, n)
SummaryOr(u, n) ==
  IF u.planSummary # <<>> THEN u.planSummary
  ELSE [slice |-> n, of |-> u.accumulatedContext]

NoPrompt == [kind |-> "none"]

NewArchitect(modelType, scoutData) ==
  [kind |-> "architect",
   modelType |-> modelType,
   scoutData |-> scoutData,
   pc |-> "initial",
   i |-> 0,
   accumulatedContext |-> <<>>,
   planSummary |-> <<>>,
   response1 |-> <<>>,
   status |-> "planning",
   \* history: the prompt, result and cause of the last call, the chunk it
   \* was about, and the chunk counts after which a summary was asked for
   prompt |-> NoPrompt,
   result |-> Pending,
   cause |-> O_ok,
   chunk |-> 0,
   summaries |-> <<>>]

ArchitectInit ==
  /\ JobInit
  /\ \E modelType \in ModelTypes, scoutData \in ScoutLists :
       unit = NewArchitect(modelType, scoutData)

\* the call itself: the prompt sent and what came back
Called(u, prompt, got) ==
  [u EXCEPT !.prompt = prompt, !.result = got.result, !.cause = got.cause,
            !.chunk = IF prompt.kind \in {"chunk", "half1", "half2"} THEN u.i + 1 ELSE 0]

\* the outer catch: status failed with the error's message
Failed(u) == [u EXCEPT !.pc = "returned", !.status = "failed"]

\* for (...; i < chunksToProcess.length; i++)
NextChunk(u) ==
  [u EXCEPT !.i = u.i + 1,
            !.pc = IF u.i + 1 < Len(chunksToProcess(u.scoutData)) THEN "chunk" ELSE "final"]

\* if ((i + 1) % 3 === 0 || i === chunksToProcess.length - 1)
AfterChunkOnlyEveryThird(u) ==
  IF (u.i + 1) % SummaryEvery = 0
    THEN [u EXCEPT !.pc = "summary"]
    ELSE NextChunk(u)

AfterChunk(u) ==
  IF (u.i + 1) % SummaryEvery = 0 \/ u.i = Len(chunksToProcess(u.scoutData)) - 1
    THEN [u EXCEPT !.pc = "summary"]
    ELSE NextChunk(u)

InitialPrompt(u) ==
  [kind |-> "initial",
   stats |-> [totalStyles |-> u.scoutData.computedStyles,
              totalLayout |-> u.scoutData.layout,
              totalAnimations |-> u.scoutData.animations]]

ChunkPrompt(u) ==
  LET chunk == chunksToProcess(u.scoutData)[u.i + 1]
  IN  [kind |-> "chunk",
       n |-> u.i + 1,
       of |-> Len(chunksToProcess(u.scoutData)),
       type |-> chunk.type,
       index |-> chunk.index + 1,
       total |-> chunk.total,
       data |-> chunk.data,
       previous |-> IF u.i > 0 THEN SummaryOr(u, 300) ELSE <<>>]

HalfPrompt(u, part) ==
  LET half == SplitChunk(chunksToProcess(u.scoutData)[u.i + 1])[part]
  IN  [kind |-> IF part = 1 THEN "half1" ELSE "half2",
       type |-> half.type,
       data |-> half.data,
       previous |-> IF part = 1 THEN <<>> ELSE u.response1]

SummaryPrompt(u) == [kind |-> "summary", processed |-> u.i + 1]

FinalPrompt(u) ==
  [kind |-> "final",
   context |-> SummaryOr(u, 1000),
   stats |-> [styles |-> u.scoutData.computedStyles,
              layout |-> u.scoutData.layout,
              animations |-> u.scoutData.animations]]

ArchitectFrame == UNCHANGED <<pc, currentState, local, redis, redisUp, wrote, now, calls>>

\* let accumulatedContext = await callLLMWithFallback(initialPrompt, modelType)
ArchitectOverview ==
  /\ unit.kind = "architect"
  /\ unit.pc = "initial"
  /\ \E run \in OutcomeRuns :
       LET got == GatewayRun(unit.modelType, 1, run)
           u == Called(unit, InitialPrompt(unit), got)
       IN  unit' = IF got.result.kind = "throw"
                     THEN Failed(u)
                     ELSE [u EXCEPT !.accumulatedContext = << Resp("initial", 0) >>,
                                    !.pc = IF Len(chunksToProcess(u.scoutData)) > 0
                                             THEN "chunk" ELSE "final"]
  /\ ArchitectFrame

\* const chunkResponse = await callLLMWithFallback(chunkPrompt, modelType)
\* and its catch
ArchitectChunk ==
  /\ unit.kind = "architect"
  /\ unit.pc = "chunk"
  /\ \E run \in OutcomeRuns :
       LET got == GatewayRun(unit.modelType, 1, run)
           u == Called(unit, ChunkPrompt(unit), got)
       IN  unit' = IF got.result.kind = "text"
                     THEN AfterChunk(
                            [u EXCEPT !.accumulatedContext =
                               IF u.i = 0 THEN << Resp("chunk", 1) >>
                               ELSE Append(@, Resp("chunk", u.i + 1))])
                   ELSE IF TooLarge(got.result.error)
                     THEN [u EXCEPT !.pc = "half1"]
                     ELSE Failed(u)
  /\ ArchitectFrame

\* const response1 = await callLLMWithFallback(prompt1, modelType)
ArchitectHalf1 ==
  /\ unit.kind = "architect"
  /\ unit.pc = "half1"
  /\ \E run \in OutcomeRuns :
       LET got == GatewayRun(unit.modelType, 1, run)
           u == Called(unit, HalfPrompt(unit, 1), got)
       IN  unit' = IF got.result.kind = "text"
                     THEN [u EXCEPT !.response1 = << Resp("half1", u.i + 1) >>,
                                    !.pc = "half2"]
                     ELSE AfterChunk(u)
  /\ ArchitectFrame

\* const response2 = await callLLMWithFallback(prompt2, modelType)
ArchitectHalf2 ==
  /\ unit.kind = "architect"
  /\ unit.pc = "half2"
  /\ \E run \in OutcomeRuns :
       LET got == GatewayRun(unit.modelType, 1, run)
           u == Called(unit, HalfPrompt(unit, 2), got)
       IN  unit' = IF got.result.kind = "text"
                     THEN AfterChunk(
                            [u EXCEPT !.accumulatedContext =
                               @ \o u.response1 \o << Resp("half2", u.i + 1) >>,
                                      !.response1 = <<>>])
                     ELSE AfterChunk([u EXCEPT !.response1 = <<>>])
  /\ ArchitectFrame

\* planSummary = await callLLMWithFallback(summaryPrompt, modelType);
\* accumulatedContext = planSummary
ArchitectSummary ==
  /\ unit.kind = "architect"
  /\ unit.pc = "summary"
  /\ \E run \in OutcomeRuns :
       LET got == GatewayRun(unit.modelType, 1, run)
           u == [Called(unit, SummaryPrompt(unit), got)
                   EXCEPT !.summaries = Append(@, unit.i + 1)]
       IN  unit' = IF got.result.kind = "throw"
                     THEN Failed(u)
                     ELSE NextChunk([u EXCEPT !.planSummary = << Resp("summary", u.i + 1) >>,
                                              !.accumulatedContext = << Resp("summary", u.i + 1) >>])
  /\ ArchitectFrame

\* const content = await callLLMWithFallback(finalPrompt, modelType) and
\* the parse of the plan
ArchitectFinal ==
  /\ unit.kind = "architect"
  /\ unit.pc = "final"
  /\ \E run \in OutcomeRuns, json \in BOOLEAN :
       LET got == GatewayRun(unit.modelType, 1, run)
           u == Called(unit, FinalPrompt(unit), got)
       IN  unit' = IF got.result.kind = "throw" \/ ~json
                     THEN Failed(u)
                     ELSE [u EXCEPT !.pc = "returned", !.status = "coding"]
  /\ ArchitectFrame

ArchitectNext ==
  \/ ArchitectOverview
  \/ ArchitectChunk
  \/ ArchitectHalf1
  \/ ArchitectHalf2
  \/ ArchitectSummary
  \/ ArchitectFinal

SpecArchitect == ArchitectInit /\ [][ArchitectNext]_vars

AllChunks == chunkScoutData(unit.scoutData, ChunkSize)

(***************************************************************************)
(* C28: architectNode processes at most 20 chunks: every chunk or half     *)
(* call sends items of one of the first 20 chunks (styles, then layout,    *)
(* then animations) only, and the final prompt carries the counts of the   *)
(* full lists and the summary, no chunk data.                              *)
(***************************************************************************)
C28ChunkCeiling ==
  unit.kind = "architect" =>
    /\ unit.i <= maxChunksToProcess
    /\ unit.chunk <= maxChunksToProcess
    /\ unit.prompt.kind \in {"chunk", "half1", "half2"} =>
         /\ unit.prompt.type = AllChunks[unit.chunk].type
         /\ AllChunks[unit.chunk].data.lo <= unit.prompt.data.lo
         /\ unit.prompt.data.hi <= AllChunks[unit.chunk].data.hi
    /\ unit.prompt.kind = "final" =>
         /\ unit.prompt.stats = [styles |-> unit.scoutData.computedStyles,
                                 layout |-> unit.scoutData.layout,
                                 animations |-> unit.scoutData.animations]
         /\ DOMAIN unit.prompt = {"kind", "context", "stats"}
         /\ unit.i = Smaller(maxChunksToProcess, Len(AllChunks))

C28Witness ==
  /\ unit.kind = "architect"
  /\ Len(AllChunks) > maxChunksToProcess
  /\ unit.prompt.kind = "final"
  /\ unit.i = maxChunksToProcess
  /\ unit.status = "coding"

(***************************************************************************)
(* C29: after the k-th of n chunks one summary call is made when k is a    *)
(* multiple of 3 or k = n, and none otherwise; after a summary call that   *)
(* answered the transcript is the summary, and the transcript never holds  *)
(* the responses of more than 3 chunks.                                    *)
(***************************************************************************)
SummaryDue(k) == k % 3 = 0 \/ k = Len(chunksToProcess(unit.scoutData))

RECURSIVE DueUpTo(_)
DueUpTo(k) ==
  IF k = 0 THEN <<>>
  ELSE IF SummaryDue(k) THEN Append(DueUpTo(k - 1), k) ELSE DueUpTo(k - 1)

ChunksInTranscript ==
  {unit.accumulatedContext[x].i :
     x \in {y \in 1..Len(unit.accumulatedContext) :
              unit.accumulatedContext[y].call \in {"chunk", "half1", "half2"}}}

C29SummaryEveryThird ==
  unit.kind = "architect" =>
    /\ unit.pc \in {"chunk", "final"} => unit.summaries = DueUpTo(unit.i)
    /\ unit.pc = "summary" => SummaryDue(unit.i + 1) /\ unit.summaries = DueUpTo(unit.i)
    /\ unit.pc \in {"half1", "half2"} => unit.summaries = DueUpTo(unit.i)
    /\ unit.prompt.kind = "summary" /\ unit.result.kind = "text" =>
         /\ unit.accumulatedContext = << Resp("summary", unit.i) >>
         /\ unit.planSummary = unit.accumulatedContext
    /\ Cardinality(ChunksInTranscript) <= 3

C29Witness ==
  /\ unit.kind = "architect"
  /\ Len(chunksToProcess(unit.scoutData)) = 4
  /\ unit.pc = "final"
  /\ unit.summaries = <<3, 4>>
  /\ unit.accumulatedContext = << Resp("summary", 4) >>

\* the last call failed on an input-size limit
SizeFailure == unit.result.kind = "throw" /\ unit.cause.class = "size"

\* chunk k is passed over: the loop is past it, the stage has not failed
\* and the transcript holds nothing of it
Skipped(k) ==
  /\ unit.pc \in {"summary", "chunk", "final"}
  /\ unit.status = "planning"
  /\ unit.pc = "summary" => unit.i + 1 = k
  /\ unit.pc \in {"chunk", "final"} => unit.i = k
  /\ k \notin ChunksInTranscript

C31SplitOnlyOnSizeFailure ==
  unit.kind = "architect" /\ unit.prompt.kind = "chunk"
    /\ unit.result.kind = "throw" /\ ~SizeFailure =>
      /\ unit.pc = "returned"
      /\ unit.status = "failed"

FeedbackLines(qaResult) ==
  [k \in 1..Len(qaResult.issues) |->
     <<qaResult.issues[k].description, qaResult.issues[k].suggestion>>]

(***************************************************************************)
(* C32: a coderNode invocation with retryCount > 0 follows a qaNode        *)
(* invocation that returned a ValidationResult, and its feedback is one    *)
(* line per issue of that result, in order, with description and           *)
(* suggestion; a coderNode invocation with retryCount 0 has no feedback.   *)
(***************************************************************************)
C32FeedbackFromLastResult ==
  \A i \in 1..Len(calls) :
    calls[i].node = "coder" =>
      IF calls[i].retryCount > 0
        THEN /\ i > 1
             /\ calls[i - 1].node = "qa"
             /\ calls[i - 1].qa # <<>>
             /\ calls[i].feedback = FeedbackLines(calls[i - 1].qa[1])
        ELSE /\ calls[i].feedback = <<>>
             /\ \A j \in 1..(i - 1) : calls[j].node # "coder"

C32Witness ==
  \E i \in 2..Len(calls) :
    /\ calls[i].node = "coder"
    /\ calls[i].retryCount = 2
    /\ Len(calls[i].feedback) = 2
    /\ calls[i - 1].qa # <<>>
    /\ calls[i - 3].qa # <<>>
    /\ calls[i - 3].qa # calls[i - 1].qa

(***************************************************************************)
(* qaNode's reading of the vision response taken on its own.  A JSON value *)
(* is a record with its JavaScript type; `means` is the number the metric  *)
(* is to be read as.                                                       *)
(***************************************************************************)
Digits == <<"0", "1", "2", "3", "4", "5", "6", "7", "8", "9">>

IsDigit(c) == \E d \in 1..Len(Digits) : Digits[d] = c

DigitValue(c) == (CHOOSE d \in 1..Len(Digits) : Digits[d] = c) - 1

\* value.match(/(\d+)/): the first run of digits, <<>> when there is none
FirstDigitRun(s) ==
  IF \A k \in 1..Len(s) : ~IsDigit(s[k])
    THEN <<>>
    ELSE LET from == CHOOSE k \in 1..Len(s) :
                       IsDigit(s[k]) /\ \A h \in 1..(k - 1) : ~IsDigit(s[h])
             to == CHOOSE k \in from..Len(s) :
                     /\ \A h \in from..k : IsDigit(s[h])
                     /\ (k = Len(s) \/ ~IsDigit(s[k + 1]))
         IN  SubSeq(s, from, to)

\* parseInt(digits, 10)
RECURSIVE ParseInt(_)
ParseInt(digits) ==
  IF digits = <<>> THEN 0
  ELSE 10 * ParseInt(SubSeq(digits, 1, Len(digits) - 1)) + DigitValue(digits[Len(digits)])

JsNumber(n) == [type |-> "number", num |-> n]

JsString(s) == [type |-> "string", str |-> s]

JsUndefined == [type |-> "undefined"]

JsNull == [type |-> "null"]

JsObject == [type |-> "object"]

getMetricValueNumbersOnly(value) ==
  IF value.type = "number" THEN value.num ELSE 0

getMetricValue(value) ==
  IF value.type = "number" THEN value.num
  ELSE IF value.type = "string" /\ FirstDigitRun(value.str) # <<>>
    THEN ParseInt(FirstDigitRun(value.str))
    ELSE 0

MetricValues ==
  { [js |-> JsNumber(95), means |-> 95],
    [js |-> JsNumber(120), means |-> 120],
    [js |-> JsNumber(0 - 5), means |-> 0 - 5],
    [js |-> JsString(<<"8", "5", "%">>), means |-> 85],
    [js |-> JsString(<<"~", "7", "/", "1", "0">>), means |-> 7],
    [js |-> JsString(<<"n", "/", "a">>), means |-> 0],
    [js |-> JsNull, means |-> 0],
    [js |-> JsUndefined, means |-> 0],
    [js |-> JsObject, means |-> 0] }

\* what the vision provider's text holds: no {...} at all, braces that do
\* not parse, or an object whose metrics field is absent, null or an object
VisionObjects ==
  { [kind |-> "json", metrics |-> JsUndefined, issues |-> << I_Footer >>],
    [kind |-> "json", metrics |-> JsNull, issues |-> << I_Footer >>] }
  \cup
  { [kind |-> "json",
     metrics |-> [type |-> "object", fields |-> <<s.js, v.js, l.js, c.js>>],
     issues |-> << I_Footer >>] :
       s \in MetricValues, v \in MetricValues, l \in MetricValues, c \in MetricValues }

VisionTexts == {[kind |-> "nojson"], [kind |-> "badjson"]} \cup VisionObjects

\* lines 263-295: jsonMatch, JSON.parse, the metrics test and the four
\* getMetricValue calls; a throw is caught by qaNode's own catch
ReadVisionText(gptResponse) ==
  IF gptResponse.kind # "json" \/ gptResponse.metrics.type # "object"
    THEN R_error
    ELSE [kind |-> "vision",
          metrics |-> [k \in 1..4 |-> getMetricValue(gptResponse.metrics.fields[k])],
          issues |-> gptResponse.issues]

\* a state qaNode can render and validate
QaInput ==
  Merge(initialState,
        [status |-> "qa", currentNode |-> "qa", scoutData |-> Snapshot,
         generatedCode |-> [files |-> F_Normal]])

MetricsInit ==
  /\ JobInit
  /\ \E gptResponse \in VisionTexts :
       unit = [kind |-> "metrics", gptResponse |-> gptResponse, result |-> Pending]

MetricsApply ==
  /\ unit.kind = "metrics"
  /\ unit.result = Pending
  /\ unit' = [unit EXCEPT !.result = qaNode(QaInput, ReadVisionText(unit.gptResponse), 0)]
  /\ UNCHANGED <<pc, currentState, local, redis, redisUp, wrote, now, calls>>

MetricsNext == MetricsApply

SpecMetrics == MetricsInit /\ [][MetricsNext]_vars

\* the number the claim gives to metric k of the response
Means(k) ==
  (CHOOSE m \in MetricValues : m.js = unit.gptResponse.metrics.fields[k]).means

HasMetrics == unit.gptResponse.kind = "json" /\ unit.gptResponse.metrics.type = "object"

(***************************************************************************)
(* C33: a metric that is a number is read as itself, a string with digits  *)
(* as its first run of digits, anything else as 0, and the stage does not  *)
(* fail; a response without a JSON object, with JSON that does not parse   *)
(* or without metrics makes qaNode return status failed with one more      *)
(* error entry, tagged qa, and no qaResult.                                *)
(***************************************************************************)
C33MetricCoercion ==
  unit.kind = "metrics" /\ unit.result # Pending =>
    IF HasMetrics
      THEN /\ unit.result.status # "failed"
           /\ Has(unit.result, "qaResult")
           /\ unit.result.qaResult.metrics = [k \in 1..4 |-> Means(k)]
      ELSE /\ unit.result.status = "failed"
           /\ ~Has(unit.result, "qaResult")
           /\ Len(unit.result.errors) = Len(QaInput.errors) + 1
           /\ unit.result.errors[Len(unit.result.errors)].node = "qa"

C33Witness ==
  /\ unit.kind = "metrics"
  /\ HasMetrics
  /\ unit.gptResponse.metrics.fields =
       << JsString(<<"8", "5", "%">>), JsNumber(95), JsNull,
          JsString(<<"~", "7", "/", "1", "0">>) >>
  /\ unit.result # Pending
  /\ unit.result.qaResult.metrics = <<85, 95, 0, 7>>

(***************************************************************************)
(* C34: the score and the four metrics of a ValidationResult are within    *)
(* 0..100 whatever the provider returned.                                  *)
(***************************************************************************)
C34ScoresInRange ==
  unit.kind = "metrics" /\ unit.result # Pending /\ Has(unit.result, "qaResult") =>
    /\ unit.result.qaResult.score \in 0..100
    /\ \A k \in 1..4 : unit.result.qaResult.metrics[k] \in 0..100

\* the r-th ValidationResult the job's qaNode invocations returned
RECURSIVE NthQaCall(_, _)
NthQaCall(r, from) ==
  IF calls[from].qa # <<>>
    THEN IF r = 1 THEN from ELSE NthQaCall(r - 1, from + 1)
    ELSE NthQaCall(r, from + 1)

QaResultAt(r) == calls[NthQaCall(r, 1)].qa[1]

LastObserved == unit.observed[Len(unit.observed)]

(***************************************************************************)
(* C35: when a poll observes, with status qa, coding or complete, a        *)
(* ValidationResult other than the one whose qa_metrics event the stream   *)
(* has sent, the stream sends a qa_metrics event and, when the result has  *)
(* issues, a qa_issue batch for the new result.                            *)
(***************************************************************************)
C35NewResultNewEvents ==
  unit.kind = "stream" /\ unit.observed # <<>>
    /\ unit.lastStatus \in {"qa", "coding", "complete"}
    /\ (\E i \in EventsOf("qa_metrics") :
          /\ unit.events[i].result < LastObserved
          /\ QaResultAt(unit.events[i].result) # QaResultAt(LastObserved)) =>
      /\ \E j \in EventsOf("qa_metrics") : unit.events[j].result = LastObserved
      /\ QaResultAt(LastObserved).issues # <<>> =>
           \E j \in EventsOf("qa_issue") : unit.events[j].result = LastObserved

StageFailures == {i \in 1..Len(calls) : calls[i].ret \in {"failed", "throw"}}

MaxFires == 2

NewController ==
  [kind |-> "controller",
   interval |-> TRUE,
   suspended |-> 0,
   fires |-> 0,
   aborted |-> FALSE,
   late |-> <<>>] @@ NewStream

ControllerInit ==
  /\ JobInit
  /\ unit = NewController

ControllerFrame == UNCHANGED <<pc, currentState, local, redis, redisUp, wrote, now, calls>>

\* controller.close() of the callback or of the abort listener
Close(u, by) ==
  IF u.closed = "open"
    THEN [u EXCEPT !.closed = by, !.interval = FALSE]
    ELSE [u EXCEPT !.late = Append(@, "close"), !.interval = FALSE]

\* the interval fires: the timeout test, then the read is issued
IntervalFires ==
  /\ unit.kind = "controller"
  /\ unit.interval
  /\ unit.fires < MaxFires
  /\ \E elapsed \in BOOLEAN :
       unit' = IF elapsed
                 THEN Close([Enqueue(unit, << StreamError("Stream timeout") >>)
                               EXCEPT !.fires = @ + 1], "timeout")
                 ELSE [unit EXCEPT !.fires = @ + 1, !.suspended = @ + 1]
  /\ ControllerFrame

\* what the rest of the callback does on a controller that is closed: its
\* first call on the controller throws, and so does the enqueue of its catch
ResumeClosed(u, jobData) ==
  IF jobData = NoKey
    THEN u
    ELSE LET v == Poll(u, jobData)
         IN  IF Len(v.events) > Len(u.events)
               THEN [u EXCEPT !.late = @ \o <<"enqueue", "enqueue">>]
               ELSE IF jobData.status \in {"complete", "failed"}
                      THEN [u EXCEPT !.late = @ \o <<"close", "enqueue">>,
                                     !.interval = FALSE]
                      ELSE u

ResumeOpen(u, jobData) ==
  LET v == Poll(u, jobData)
  IN  IF v.closed = "terminal" THEN [v EXCEPT !.interval = FALSE] ELSE v

\* the store answers a suspended callback
ReadReturns ==
  /\ unit.kind = "controller"
  /\ unit.suspended > 0
  /\ LET u == [unit EXCEPT !.suspended = @ - 1]
     IN  unit' = IF ~redisUp
                   THEN IF u.closed = "open"
                          THEN Enqueue(u, << StreamError("read") >>)
                          ELSE [u EXCEPT !.late = Append(@, "enqueue")]
                   ELSE IF u.closed = "open"
                          THEN ResumeOpen(u, redis)
                          ELSE ResumeClosed(u, redis)
  /\ ControllerFrame

\* the client disconnects: the abort listener runs
AbortListener ==
  /\ unit.kind = "controller"
  /\ ~unit.aborted
  /\ unit' = Close([unit EXCEPT !.aborted = TRUE], "abort")
  /\ ControllerFrame

ControllerNext ==
  \/ JobSteps
  \/ IntervalFires
  \/ ReadReturns
  \/ AbortListener

SpecController == ControllerInit /\ [][ControllerNext]_vars

(***************************************************************************)
(* C37: once the stream has been closed (by the timeout, by a terminal     *)
(* status or by the client's abort) nothing is enqueued on its controller  *)
(* and the controller is not closed again.                                 *)
(***************************************************************************)
C37NoUseAfterClose ==
  unit.kind = "controller" => unit.late = <<>>

(***************************************************************************)
(* agentGraph: the compiled workflow scout -> architect -> coder -> qa,    *)
(* with routeAfterQA choosing the edge that leaves qa.  Every channel      *)
(* keeps the last value written to it.  `routes` lists, as history, what   *)
(* routeAfterQA was given and what it answered.                            *)
(***************************************************************************)
END == "__end__"

routeAfterQA(state) ==
  IF state.status = "complete" \/ state.status = "failed"
    THEN END
    ELSE IF state.currentNode = "qa" /\ state.status = "coding"
           THEN "coder"
           ELSE END

\* the graph is invoked on an initial state; its retry count is the caller's
NewGraph(n) ==
  [kind |-> "graph",
   at |-> "scout",
   state |-> [initialState EXCEPT !.retryCount = n],
   routes |-> <<>>]

GraphInit ==
  /\ JobInit
  /\ \E n \in 0..MaxRetries : unit = NewGraph(n)

GraphFrame == UNCHANGED <<pc, currentState, local, redis, redisUp, wrote, now, calls>>

\* a node has run: its update is merged into the channels and the edge
\* leaving the node is followed
GraphEdge(node, update, to) ==
  unit' = [unit EXCEPT !.state = Merge(@, update), !.at = to]

GraphScout ==
  /\ unit.kind = "graph" /\ unit.at = "scout"
  /\ \E resp \in ScoutResponses :
       IF scoutThrows(unit.state, resp)
         THEN unit' = [unit EXCEPT !.at = "rejected"]
         ELSE GraphEdge("scout", scoutNode(unit.state, resp), "architect")
  /\ GraphFrame

GraphArchitect ==
  /\ unit.kind = "graph" /\ unit.at = "architect"
  /\ \E resp \in ArchitectResponses :
       IF architectThrows(unit.state, resp)
         THEN unit' = [unit EXCEPT !.at = "rejected"]
         ELSE GraphEdge("architect", architectNode(unit.state, resp), "coder")
  /\ GraphFrame

GraphCoder ==
  /\ unit.kind = "graph" /\ unit.at = "coder"
  /\ \E resp \in CoderResponses :
       IF coderThrows(unit.state, resp)
         THEN unit' = [unit EXCEPT !.at = "rejected"]
         ELSE GraphEdge("coder", coderNode(unit.state, resp), "qa")
  /\ GraphFrame

GraphQa ==
  /\ unit.kind = "graph" /\ unit.at = "qa"
  /\ \E resp \in QaResponses :
       IF qaThrows(unit.state, resp)
         THEN unit' = [unit EXCEPT !.at = "rejected"]
         ELSE \E update \in {qaNode(unit.state, resp, 0)} :
                \E merged \in {Merge(unit.state, update)} :
                   unit' = [unit EXCEPT
                              !.state = merged,
                              !.at = routeAfterQA(merged),
                              !.routes = Append(@, [update |-> update,
                                                    status |-> merged.status,
                                                    to |-> routeAfterQA(merged)])]
  /\ GraphFrame

GraphNext ==
  \/ GraphScout
  \/ GraphArchitect
  \/ GraphCoder
  \/ GraphQa

SpecGraph == GraphInit /\ [][GraphNext]_vars

\* qaNode's update that asks for another coder run
RetryUpdate(update) ==
  /\ update.status = "coding"
  /\ Has(update, "qaResult")
  /\ ~update.qaResult.passed
  /\ update.retryCount <= MaxRetries

(***************************************************************************)
(* C38: in agentGraph, when qaNode returns a retry update routeAfterQA     *)
(* answers `coder` on the merged state, and it answers END only when the   *)
(* merged status is complete or failed.                                    *)
(***************************************************************************)
C38GraphRetries ==
  unit.kind = "graph" =>
    \A i \in 1..Len(unit.routes) :
       /\ RetryUpdate(unit.routes[i].update) => unit.routes[i].to = "coder"
       /\ unit.routes[i].to = END => unit.routes[i].status \in Terminal

(***************************************************************************)
(* C39: in every JobState runAgent stores, attemptHistory has retryCount   *)
(* entries; when the retry loop writes its local counter into the state    *)
(* the counter equals the state's retryCount; and retryCount never         *)
(* decreases from one stored state of the job to the next.                 *)
(***************************************************************************)
C39RetryCountMatchesHistory ==
  [][/\ Has(redis', "attemptHistory") =>
          Len(redis'.attemptHistory) = redis'.retryCount
     /\ (Has(redis, "retryCount") /\ Has(redis', "retryCount")) =>
          redis'.retryCount >= redis.retryCount
     /\ (pc = "loop" /\ pc' = "retry_coder_call") =>
          /\ local' = currentState.retryCount
          /\ currentState'.retryCount = currentState.retryCount]_vars

C39Witness ==
  /\ pc = "retry_coder_call"
  /\ local = 2
  /\ Has(redis, "attemptHistory")
  /\ redis.retryCount = 2
  /\ Len(redis.attemptHistory) = 2

(***************************************************************************)
(* C40: a stored JobState with status complete has currentNode null and,   *)
(* as the last entry of its decision log, the QA decision that ended the   *)
(* job: `Validation passed` or `Max retries exhausted`.                    *)
(***************************************************************************)
C40CompleteIsSettled ==
  (Has(redis, "status") /\ redis.status = "complete") =>
     /\ redis.currentNode = "null"
     /\ Len(redis.decisionLog) > 0
     /\ redis.decisionLog[Len(redis.decisionLog)].node = "qa"
     /\ redis.decisionLog[Len(redis.decisionLog)].decision
          \in {"Validation passed", "Max retries exhausted"}

====
